---- MODULE Spec2Model ----
(***************************************************************************)
(* A model of the Beckn energy assistant: the response extractors of       *)
(* beckn/utils.py and beckn/api_client.py, the protocol client             *)
(* BecknAPIClient and the public operations of the two domain agents.      *)
(*                                                                         *)
(* JSON values: an object is a function from its keys (strings) to its     *)
(* values, so "k in d" is k \in DOMAIN d and a missing key is a key that   *)
(* is not in the domain; a list is a sequence; Python's None is the value  *)
(* None in a string slot and NoneData in the response slot.  Strings the   *)
(* code takes apart (an item's display name, a price value) are sequences  *)
(* of one-character strings; all other strings are atomic.  Amounts of     *)
(* money are counted in hundredths (cents).                                *)
(***************************************************************************)
EXTENDS Integers, Sequences, FiniteSets, TLC

VARIABLES
    response_data,  \* the raw client response handed to an extractor
    called,         \* the operation that ran last ("none" before any)
    result,         \* what it did: [raised |-> exception name or NoError, value |-> returned value]
    posts,          \* the POSTs the last client call made: a sequence of [url, json]
    network,        \* how the network answered the last POST (NoReply before any)
    state,          \* the state map of the agent at work: user id -> state object
    uuids,          \* the number of values uuid.uuid4() has returned so far
    environ,        \* os.environ: the configuration variables that are set
    args,           \* the explicit arguments of the call at hand (NoArgs when none are studied)
    session_file,   \* user_sessions.json: whether it exists, decodes and can be written, and
                    \* the sessions it holds, keyed by the user id as a string
    writers,        \* the session updates in progress: writer -> its position and loaded copy
    clock,          \* datetime.now(), counted in ticks of 1 / TicksPerDay of a day
    caught,         \* the exception the agent operation's handler caught and logged
    solo            \* the agents that serve one user each: the operations issued so far and,
                    \* per user, the state map of an agent given that user's operations only

identity_vars == <<environ, args>>
store_vars == <<session_file, writers, clock>>
vars == <<response_data, called, result, posts, network, state, uuids, identity_vars, store_vars,
          caught, solo>>

----------------------------------------------------------------------------
(* Bounds of the model *)

MaxResponses == 2   \* entries of `responses`
MaxProviders == 2   \* providers of one catalog
MaxTagSize == 4     \* tag groups plus list entries of one item's `tags`
MaxItems == 2       \* items of one provider in the price fixtures

----------------------------------------------------------------------------
(* Python values *)

None == "None"
NoError == "NoError"
NoneData == [py_none |-> TRUE]
EmptyDict == [k \in {} |-> None]

Has(d, k) == k \in DOMAIN d
Get(d, k, default) == IF k \in DOMAIN d THEN d[k] ELSE default
Put(d, k, v) == [x \in (DOMAIN d) \cup {k} |-> IF x = k THEN v ELSE d[x]]
\* bool(x) of an object slot and of an atomic string slot
Truthy(d) == d /= NoneData /\ DOMAIN d /= {}
StrTruthy(s) == s /= None /\ s /= ""
Returned(v) == [raised |-> NoError, value |-> v]
\* before any POST: none made, no reply received
NoPosts == <<>>
NoReply == [failure |-> NoError, status_code |-> 0, decodable |-> FALSE, body |-> EmptyDict]
\* no configuration variable set, no explicit argument (each parameter left at its
\* default None), no session update in progress
NoEnviron == EmptyDict
NoArgs == [base_url |-> None, bap_id |-> None, bap_uri |-> None, bpp_id |-> None, bpp_uri |-> None]
NoWriters == EmptyDict
\* no agent serving one user alone is studied
NoSolo == [agent |-> "none", issued |-> <<>>, states |-> EmptyDict]
\* the session file with the sessions `sessions` in it, and the file not created yet
StoredFile(sessions) == [exists |-> TRUE, decodable |-> TRUE, writable |-> TRUE, sessions |-> sessions]
NoFile == [exists |-> FALSE, decodable |-> TRUE, writable |-> TRUE, sessions |-> EmptyDict]
Raised(e) == [raised |-> e, value |-> <<>>]

----------------------------------------------------------------------------
(* Character strings: str.lower, `in`, str.replace, str.strip, float() *)

Upper == <<"A","B","C","D","E","F","G","H","I","J","K","L","M",
           "N","O","P","Q","R","S","T","U","V","W","X","Y","Z">>
LowerOf == <<"a","b","c","d","e","f","g","h","i","j","k","l","m",
             "n","o","p","q","r","s","t","u","v","w","x","y","z">>
Digits == <<"0","1","2","3","4","5","6","7","8","9">>

LowerChar(c) ==
    IF \E i \in DOMAIN Upper : Upper[i] = c
    THEN LowerOf[CHOOSE i \in DOMAIN Upper : Upper[i] = c]
    ELSE c
Lower(s) == [i \in DOMAIN s |-> LowerChar(s[i])]

StartsAt(s, pat, i) == i + Len(pat) - 1 <= Len(s) /\ SubSeq(s, i, i + Len(pat) - 1) = pat
Contains(s, pat) == \E i \in 1..(Len(s) + 1) : StartsAt(s, pat, i)

RECURSIVE ReplaceFrom(_, _, _)
ReplaceFrom(s, pat, i) ==
    IF i > Len(s) THEN <<>>
    ELSE IF StartsAt(s, pat, i) THEN ReplaceFrom(s, pat, i + Len(pat))
    ELSE <<s[i]>> \o ReplaceFrom(s, pat, i + 1)
\* s.replace(pat, "") for a non-empty pat
Remove(s, pat) == ReplaceFrom(s, pat, 1)

RECURSIVE StripLeft(_)
StripLeft(s) == IF s /= <<>> /\ Head(s) = " " THEN StripLeft(Tail(s)) ELSE s
RECURSIVE StripRight(_)
StripRight(s) ==
    IF s /= <<>> /\ s[Len(s)] = " " THEN StripRight(SubSeq(s, 1, Len(s) - 1)) ELSE s
Strip(s) == StripRight(StripLeft(s))

IsDigit(c) == \E i \in DOMAIN Digits : Digits[i] = c
DigitVal(c) == (CHOOSE i \in DOMAIN Digits : Digits[i] = c) - 1
DigitsOnly(s) == \A i \in DOMAIN s : IsDigit(s[i])
RECURSIVE NatVal(_)
NatVal(s) == IF s = <<>> THEN 0 ELSE 10 * NatVal(SubSeq(s, 1, Len(s) - 1)) + DigitVal(s[Len(s)])

\* the decimal literals float() accepts among the strings of the model: digits with
\* at most one point and at least one digit, blanks around them ignored
DotAt(s) == IF \E i \in DOMAIN s : s[i] = "." THEN CHOOSE i \in DOMAIN s : s[i] = "." ELSE 0
IntPart(s) == IF DotAt(s) = 0 THEN s ELSE SubSeq(s, 1, DotAt(s) - 1)
FracPart(s) == IF DotAt(s) = 0 THEN <<>> ELSE SubSeq(s, DotAt(s) + 1, Len(s))
IsDecimal(s) ==
    /\ DigitsOnly(IntPart(s))
    /\ DigitsOnly(FracPart(s))
    /\ Len(IntPart(s)) + Len(FracPart(s)) > 0
\* the value in hundredths (digits past the second decimal are dropped)
Hundredths(s) ==
    LET f == FracPart(s) \o <<"0", "0">>
    IN 100 * NatVal(IntPart(s)) + NatVal(SubSeq(f, 1, 2))

\* a price value of the JSON body: a string or a number
StrVal(s) == [t |-> "str", s |-> s, n |-> 0]
NumVal(n) == [t |-> "num", s |-> <<>>, n |-> n]

\* float(v): the number, or ValueError
ParseFloat(v) ==
    IF v.t = "num" THEN Returned(v.n)
    ELSE IF IsDecimal(Strip(v.s)) THEN Returned(Hundredths(Strip(v.s)))
    ELSE Raised("ValueError")

----------------------------------------------------------------------------
(* beckn/utils.py: the response extractors *)

\* a tag loop that keeps the first value recorded under a key
RECURSIVE TagValuesFirstWins(_, _)
TagValuesFirstWins(list, tag_values) ==
    IF list = <<>> THEN tag_values
    ELSE LET item_desc == Get(Head(list), "descriptor", EmptyDict)
             key == IF StrTruthy(Get(item_desc, "description", ""))
                    THEN item_desc.description
                    ELSE Get(item_desc, "code", "")
             value == Get(Head(list), "value", None)
         IN TagValuesFirstWins(Tail(list),
                      IF StrTruthy(key) /\ StrTruthy(value) /\ ~Has(tag_values, key)
                      THEN Put(tag_values, key, value)
                      ELSE tag_values)

\* the tag loop, the same statements in each of the four extractors of beckn/utils.py
RECURSIVE TagValues(_, _)
TagValues(list, tag_values) ==
    IF list = <<>> THEN tag_values
    ELSE LET tag_item == Head(list)
             item_desc == Get(tag_item, "descriptor", EmptyDict)
             key == IF StrTruthy(Get(item_desc, "description", ""))
                    THEN item_desc.description
                    ELSE Get(item_desc, "code", "")
             value == Get(tag_item, "value", None)
         IN TagValues(Tail(list),
                      IF StrTruthy(key) /\ StrTruthy(value)
                      THEN Put(tag_values, key, value)
                      ELSE tag_values)

TagDesc(tag) == Get(Get(tag, "descriptor", EmptyDict), "description", None)

RECURSIVE TagsFrom(_, _)
TagsFrom(tags, acc) ==
    IF tags = <<>> THEN acc
    ELSE LET tag == Head(tags)
             tag_desc == TagDesc(tag)
             tag_values == TagValues(Get(tag, "list", <<>>), EmptyDict)
         IN TagsFrom(Tail(tags),
                     IF ~StrTruthy(tag_desc) THEN acc
                     ELSE IF DOMAIN tag_values /= {} THEN Put(acc, tag_desc, tag_values)
                     ELSE acc)

ExtractTags(item) == TagsFrom(Get(item, "tags", <<>>), EmptyDict)

\* X.get("images", [{}])[0].get("url", "") if X.get("images") else ""
ImageOf(descriptor) ==
    IF Has(descriptor, "images") /\ descriptor.images /= <<>>
    THEN Get(descriptor.images[1], "url", "")
    ELSE ""

UnknownSubsidy == <<"U","n","k","n","o","w","n"," ","S","u","b","s","i","d","y">>
UnknownService == <<"U","n","k","n","o","w","n"," ","S","e","r","v","i","c","e">>
UnknownProgram == <<"U","n","k","n","o","w","n"," ","P","r","o","g","r","a","m">>
UnknownProduct == <<"U","n","k","n","o","w","n"," ","P","r","o","d","u","c","t">>
UnknownOpportunity ==
    <<"U","n","k","n","o","w","n"," ","O","p","p","o","r","t","u","n","i","t","y">>

ItemDescriptor(item) == Get(item, "descriptor", EmptyDict)
ProviderDescriptor(provider) == Get(provider, "descriptor", EmptyDict)
PriceValue(item) == Get(Get(item, "price", EmptyDict), "value", StrVal(<<"0">>))
PriceCurrency(item) == Get(Get(item, "price", EmptyDict), "currency", "USD")

\* a walk over `responses` that visits the last response first
RECURSIVE ProvidersOfLastFirst(_)
ProvidersOfLastFirst(responses) ==
    IF responses = <<>> THEN <<>>
    ELSE ProvidersOfLastFirst(Tail(responses))
         \o (IF ~Has(Head(responses), "message") THEN <<>>
             ELSE Get(Get(Head(responses).message, "catalog", EmptyDict), "providers", <<>>))

\* the walk over `responses` shared by the catalog extractors: the providers an
\* extractor visits, in visiting order
RECURSIVE ProvidersOf(_)
ProvidersOf(responses) ==
    IF responses = <<>> THEN <<>>
    ELSE LET response == Head(responses)
             message == Get(response, "message", EmptyDict)
             catalog == Get(message, "catalog", EmptyDict)
         IN (IF ~Truthy(response) \/ ~Has(response, "message") THEN <<>>
             ELSE Get(catalog, "providers", <<>>))
            \o ProvidersOf(Tail(responses))

InvalidFormat(data) == ~Truthy(data) \/ ~Has(data, "responses")

\* one subsidy record (lines 69-99), or IndexError from the read of fulfillments[0]
SubsidyOf(provider, item) ==
    IF Get(provider, "fulfillments", <<>>) = <<>> THEN Raised("IndexError")
    ELSE Returned(
        [id |-> Get(item, "id", None),
         provider_id |-> Get(provider, "id", None),
         provider_name |-> Get(ProviderDescriptor(provider), "name", "Unknown Provider"),
         fulfillment_id |-> Get(provider.fulfillments[1], "id", None),
         provider_desc |-> Get(ProviderDescriptor(provider), "short_desc", ""),
         name |-> Get(ItemDescriptor(item), "name", UnknownSubsidy),
         description |-> Get(ItemDescriptor(item), "short_desc", ""),
         long_description |-> Get(ItemDescriptor(item), "long_desc", ""),
         image |-> ImageOf(ItemDescriptor(item)),
         price |-> PriceValue(item),
         currency |-> PriceCurrency(item),
         tags |-> ExtractTags(item)])

ServiceOf(provider, item) ==
    Returned(
        [id |-> Get(item, "id", None),
         name |-> Get(ItemDescriptor(item), "name", UnknownService),
         description |-> Get(ItemDescriptor(item), "short_desc", ""),
         long_description |-> Get(ItemDescriptor(item), "long_desc", ""),
         image |-> ImageOf(ItemDescriptor(item)),
         price |-> PriceValue(item),
         currency |-> PriceCurrency(item),
         tags |-> ExtractTags(item)])

ProgramOf(provider, item) ==
    Returned(
        [id |-> Get(item, "id", None),
         provider_id |-> Get(provider, "id", None),
         provider_name |-> Get(ProviderDescriptor(provider), "name", "Unknown Provider"),
         name |-> Get(ItemDescriptor(item), "name", UnknownProgram),
         description |-> Get(ItemDescriptor(item), "short_desc", ""),
         long_description |-> Get(ItemDescriptor(item), "long_desc", ""),
         image |-> ImageOf(ItemDescriptor(item)),
         tags |-> ExtractTags(item)])

\* beckn/utils.py lines 259-286: the type is the descriptor's code, the price is float(value)
OpportunityOf(provider, item) ==
    LET price == ParseFloat(PriceValue(item))
    IN IF price.raised /= NoError THEN Raised(price.raised)
       ELSE Returned(
        [id |-> Get(item, "id", None),
         provider_id |-> Get(provider, "id", None),
         provider_name |-> Get(ProviderDescriptor(provider), "name", "Unknown Provider"),
         type |-> Get(ItemDescriptor(item), "code", "unknown"),
         name |-> Get(ItemDescriptor(item), "name", UnknownOpportunity),
         description |-> Get(ItemDescriptor(item), "short_desc", ""),
         price_per_kwh |-> price.value,
         currency |-> PriceCurrency(item),
         tags |-> ExtractTags(item)])

\* the loop over the items of a provider: `made` holds what building each record gave,
\* in visiting order; an exception ends the loop, a record is appended
RECURSIVE ItemRecords(_, _)
ItemRecords(made, acc) ==
    IF made = <<>> THEN Returned(acc)
    ELSE IF Head(made).raised /= NoError THEN Head(made)
    ELSE ItemRecords(Tail(made), Append(acc, Head(made).value))

\* the loop over the providers: `made` holds what the item loop of each provider gave
RECURSIVE ProviderRecords(_, _)
ProviderRecords(made, acc) ==
    IF made = <<>> THEN Returned(acc)
    ELSE IF Head(made).raised /= NoError THEN Head(made)
    ELSE ProviderRecords(Tail(made), acc \o Head(made).value)

Items(provider) == Get(provider, "items", <<>>)
SubsidiesOf(provider) ==
    ItemRecords([i \in DOMAIN Items(provider) |-> SubsidyOf(provider, Items(provider)[i])], <<>>)
ServicesOf(provider) ==
    ItemRecords([i \in DOMAIN Items(provider) |-> ServiceOf(provider, Items(provider)[i])], <<>>)
ProgramsOf(provider) ==
    ItemRecords([i \in DOMAIN Items(provider) |-> ProgramOf(provider, Items(provider)[i])], <<>>)
OpportunitiesOf(provider) ==
    ItemRecords([i \in DOMAIN Items(provider) |-> OpportunityOf(provider, Items(provider)[i])], <<>>)

extract_subsidies_from_response(data) ==
    IF InvalidFormat(data) THEN Returned(<<>>)
    ELSE LET providers == ProvidersOf(data.responses)
         IN ProviderRecords([p \in DOMAIN providers |-> SubsidiesOf(providers[p])], <<>>)

InstallerOf(provider) ==
    LET services == ServicesOf(provider)
    IN [id |-> Get(provider, "id", None),
        name |-> Get(ProviderDescriptor(provider), "name", "Unknown Provider"),
        short_desc |-> Get(ProviderDescriptor(provider), "short_desc", ""),
        long_desc |-> Get(ProviderDescriptor(provider), "long_desc", ""),
        image |-> ImageOf(ProviderDescriptor(provider)),
        locations |-> Get(provider, "locations", <<>>),
        services |-> services.value]

\* an installer extractor without the guard on the shape of its input
extract_installers_unguarded(data) ==
    IF ~Truthy(data) THEN Raised("AttributeError")
    ELSE IF ~Has(data, "responses") THEN Raised("KeyError")
    ELSE LET providers == ProvidersOf(data.responses)
         IN Returned([i \in 1..Len(providers) |-> InstallerOf(providers[i])])

extract_installers_from_response(data) ==
    IF InvalidFormat(data) THEN Returned(<<>>)
    ELSE LET providers == ProvidersOf(data.responses)
         IN Returned([i \in 1..Len(providers) |-> InstallerOf(providers[i])])

extract_energy_programs_from_response(data) ==
    IF InvalidFormat(data) THEN Returned(<<>>)
    ELSE LET providers == ProvidersOf(data.responses)
         IN ProviderRecords([p \in DOMAIN providers |-> ProgramsOf(providers[p])], <<>>)

extract_energy_trading_opportunities(data) ==
    IF InvalidFormat(data) THEN Returned(<<>>)
    ELSE LET providers == ProvidersOf(data.responses)
         IN ProviderRecords([p \in DOMAIN providers |-> OpportunitiesOf(providers[p])], <<>>)

\* an order walk without the break: the last order of `responses`, or {}
RECURSIVE LastOrder(_)
LastOrder(responses) ==
    IF responses = <<>> THEN EmptyDict
    ELSE IF Has(responses[Len(responses)], "message")
            /\ Has(responses[Len(responses)].message, "order")
    THEN responses[Len(responses)].message.order
    ELSE LastOrder(SubSeq(responses, 1, Len(responses) - 1))

\* the first order of `responses`, or {}
RECURSIVE FirstOrder(_)
FirstOrder(responses) ==
    IF responses = <<>> THEN EmptyDict
    ELSE IF Has(Head(responses), "message") /\ Has(Head(responses).message, "order")
    THEN Head(responses).message.order
    ELSE FirstOrder(Tail(responses))

extract_order_details(data) ==
    IF InvalidFormat(data) THEN Returned(EmptyDict)
    ELSE Returned(FirstOrder(data.responses))

----------------------------------------------------------------------------
(* beckn/api_client.py: the module's own extract_energy_trading_opportunities *)

Sell == <<"s","e","l","l">>
Buy == <<"b","u","y">>
UsdPerKwh == <<"U","S","D","/","k","W","H">>

\* lines 507-511
ItemType(item) ==
    LET name == Lower(Get(ItemDescriptor(item), "name", <<>>))
    IN IF Contains(name, Sell) THEN "sell_excess"
       ELSE IF Contains(name, Buy) THEN "buy_energy"
       ELSE "p2p_sharing"

\* lines 514-518: the price with the USD/kWH suffix taken off, a number as it is, else 0.0
PricePerKwh(item) ==
    LET price_value == PriceValue(item)
        stripped == ParseFloat(StrVal(Strip(Remove(price_value.s, UsdPerKwh))))
    IN IF price_value.t = "str" /\ stripped.raised = NoError THEN stripped.value
       ELSE IF price_value.t = "num" THEN price_value.n
       ELSE 0

\* lines 495-501
ProviderLocation(provider) ==
    LET locations == Get(provider, "locations", <<>>)
    IN IF locations /= <<>>
       THEN [gps |-> Get(locations[1], "gps", None), address |-> Get(locations[1], "address", None)]
       ELSE NoneData

\* lines 521-524
AvailableKwh(item) ==
    LET quantity == Get(item, "quantity", EmptyDict)
    IN IF Has(quantity, "available")
       THEN Get(Get(quantity.available, "measure", EmptyDict), "value", "0")
       ELSE "0"

\* lines 540-552: groups and entries are keyed by the descriptor's name
RECURSIVE NamedTagValues(_, _)
NamedTagValues(list, tag_values) ==
    IF list = <<>> THEN tag_values
    ELSE LET tag_item == Head(list)
             item_name == Get(Get(tag_item, "descriptor", EmptyDict), "name", "")
             value == Get(tag_item, "value", None)
         IN NamedTagValues(Tail(list),
                           IF StrTruthy(item_name) /\ StrTruthy(value)
                           THEN Put(tag_values, item_name, value)
                           ELSE tag_values)

RECURSIVE NamedTagsFrom(_, _)
NamedTagsFrom(tags, acc) ==
    IF tags = <<>> THEN acc
    ELSE LET tag == Head(tags)
             tag_name == Get(Get(tag, "descriptor", EmptyDict), "name", "")
             tag_values == NamedTagValues(Get(tag, "list", <<>>), EmptyDict)
         IN NamedTagsFrom(Tail(tags),
                          IF StrTruthy(tag_name) /\ DOMAIN tag_values /= {}
                          THEN Put(acc, tag_name, tag_values)
                          ELSE acc)

\* lines 555-560: the two entries added after the tag loop
EnergyTags(item) ==
    LET tags == Put(NamedTagsFrom(Get(item, "tags", <<>>), EmptyDict),
                    "energy_available", [amount |-> AvailableKwh(item)])
        energy_attributes == Get(tags, "Energy Attributes", EmptyDict)
    IN Put(tags, "source_type", Get(energy_attributes, "Source Type", "Solar"))

ClientOpportunityOf(provider, item) ==
    Returned(
        [id |-> Get(item, "id", None),
         provider_id |-> Get(provider, "id", None),
         provider_name |-> Get(ProviderDescriptor(provider), "name", "Unknown Provider"),
         type |-> ItemType(item),
         name |-> Get(ItemDescriptor(item), "name", UnknownOpportunity),
         description |-> Get(ItemDescriptor(item), "short_desc", ""),
         price_per_kwh |-> PricePerKwh(item),
         currency |-> "USD",
         tags |-> EnergyTags(item),
         location |-> ProviderLocation(provider)])

ClientOpportunitiesOf(provider) ==
    ItemRecords([i \in DOMAIN Items(provider) |-> ClientOpportunityOf(provider, Items(provider)[i])], <<>>)

client_extract_energy_trading_opportunities(data) ==
    IF InvalidFormat(data) THEN Returned(<<>>)
    ELSE LET providers == ProvidersOf(data.responses)
         IN ProviderRecords([p \in DOMAIN providers |-> ClientOpportunitiesOf(providers[p])], <<>>)

----------------------------------------------------------------------------
(* agents/solar_onboarding_agent.py: the product extraction of search_solar_products *)

\* lines 120-129; the image is read as images[0] with no guard for an empty list
ProductOf(provider, item) ==
    IF Has(ItemDescriptor(item), "images") /\ ItemDescriptor(item).images = <<>>
    THEN Raised("IndexError")
    ELSE Returned(
        [id |-> Get(item, "id", None),
         provider_id |-> Get(provider, "id", None),
         provider_name |-> Get(ProviderDescriptor(provider), "name", "Unknown"),
         name |-> Get(ItemDescriptor(item), "name", UnknownProduct),
         description |-> Get(ItemDescriptor(item), "short_desc", ""),
         price |-> PriceValue(item),
         currency |-> PriceCurrency(item),
         image |-> IF Has(ItemDescriptor(item), "images")
                   THEN Get(ItemDescriptor(item).images[1], "url", "")
                   ELSE ""])

\* lines 110-114: the providers of the responses that hold a message with a catalog
RECURSIVE CatalogProvidersOf(_)
CatalogProvidersOf(responses) ==
    IF responses = <<>> THEN <<>>
    ELSE LET resp == Head(responses)
         IN (IF Has(resp, "message") /\ Has(resp.message, "catalog")
             THEN Get(resp.message.catalog, "providers", <<>>)
             ELSE <<>>)
            \o CatalogProvidersOf(Tail(responses))

ProductsOf(provider) ==
    ItemRecords([i \in DOMAIN Items(provider) |-> ProductOf(provider, Items(provider)[i])], <<>>)

\* lines 108-130, for a response that is a JSON object
extract_products(response) ==
    IF ~Has(response, "responses") THEN Returned(<<>>)
    ELSE LET providers == CatalogProvidersOf(response.responses)
         IN ProviderRecords([p \in DOMAIN providers |-> ProductsOf(providers[p])], <<>>)

----------------------------------------------------------------------------
(* beckn/utils.py create_beckn_context and beckn/api_client.py BecknAPIClient *)

\* str(x) of a float with at most two decimals, x counted in hundredths
RECURSIVE NatStr(_)
NatStr(n) == IF n < 10 THEN <<Digits[n + 1]>> ELSE NatStr(n \div 10) \o <<Digits[(n % 10) + 1]>>
Str(x) ==
    NatStr(x \div 100) \o <<".">> \o
    (IF x % 10 = 0 THEN <<Digits[((x % 100) \div 10) + 1]>>
     ELSE <<Digits[((x % 100) \div 10) + 1], Digits[(x % 10) + 1]>>)
\* str(x) of a price, kept in thousandths of a dollar: "0.18", "0.162"
StrThousandths(x) ==
    IF x % 10 = 0 THEN Str(x \div 10)
    ELSE NatStr(x \div 1000) \o <<".", Digits[((x % 1000) \div 100) + 1],
                                   Digits[((x % 100) \div 10) + 1], Digits[(x % 10) + 1]>>
\* str.capitalize
UpperChar(c) ==
    IF \E i \in DOMAIN LowerOf : LowerOf[i] = c
    THEN Upper[CHOOSE i \in DOMAIN LowerOf : LowerOf[i] = c]
    ELSE c
Capitalize(s) == [i \in DOMAIN s |-> IF i = 1 THEN UpperChar(s[i]) ELSE LowerChar(s[i])]

\* the built-in identity of the network participant (no environment configuration)
DefaultBaseUrl == "https://bap-ps-client-deg-team8.becknprotocol.io"
DefaultBapId == "bap-ps-network-deg-team8.becknprotocol.io"
DefaultBapUri == "https://bap-ps-network-deg-team8.becknprotocol.io"
DefaultBppId == "bpp-ps-network-deg-team8.becknprotocol.io"
DefaultBppUri == "https://bpp-ps-network-deg-team8.becknprotocol.io"
\* a or b, of two strings
Or(a, b) == IF StrTruthy(a) THEN a ELSE b
\* the clock reading of a context, which no caller examines
UtcNow == "utcnow"

\* the value of the call of uuid.uuid4() that follows n earlier ones: a value that none
\* of them returned
uuid4(n) == n + 1
\* os.getenv(name, default): the value of a variable that is set, else the default
Getenv(env, name, default) == IF name \in DOMAIN env THEN env[name] ELSE default

\* a context builder that lets the configuration override the explicit arguments
create_beckn_context_env_first(action, domain, city_code, country_code, bap_id, bap_uri, bpp_id, bpp_uri, ids, env) ==
    [domain |-> domain,
     action |-> action,
     location |-> [country |-> [code |-> country_code], city |-> [code |-> city_code]],
     version |-> "1.1.0",
     bap_id |-> Getenv(env, "BECKN_BAP_ID", Or(bap_id, DefaultBapId)),
     bap_uri |-> Getenv(env, "BECKN_BAP_URI", Or(bap_uri, DefaultBapUri)),
     bpp_id |-> Getenv(env, "BECKN_BPP_ID", Or(bpp_id, DefaultBppId)),
     bpp_uri |-> Getenv(env, "BECKN_BPP_URI", Or(bpp_uri, DefaultBppUri)),
     transaction_id |-> ids[1],
     message_id |-> ids[2],
     timestamp |-> UtcNow]

\* `ids` are the two values uuid.uuid4() returns, in call order; `env` is os.environ
create_beckn_context(action, domain, city_code, country_code, bap_id, bap_uri, bpp_id, bpp_uri, ids, env) ==
    [domain |-> domain,
     action |-> action,
     location |-> [country |-> [code |-> country_code], city |-> [code |-> city_code]],
     version |-> "1.1.0",
     bap_id |-> Or(bap_id, Getenv(env, "BECKN_BAP_ID", DefaultBapId)),
     bap_uri |-> Or(bap_uri, Getenv(env, "BECKN_BAP_URI", DefaultBapUri)),
     bpp_id |-> Or(bpp_id, Getenv(env, "BECKN_BPP_ID", DefaultBppId)),
     bpp_uri |-> Or(bpp_uri, Getenv(env, "BECKN_BPP_URI", DefaultBppUri)),
     transaction_id |-> ids[1],
     message_id |-> ids[2],
     timestamp |-> UtcNow]

\* BecknAPIClient(base_url, bap_id, bap_uri, bpp_id, bpp_uri): the fields of the client
BecknAPIClient(given, env) ==
    [base_url |-> Or(given.base_url, Getenv(env, "BECKN_BASE_URL", DefaultBaseUrl)),
     bap_id |-> Or(given.bap_id, Getenv(env, "BECKN_BAP_ID", DefaultBapId)),
     bap_uri |-> Or(given.bap_uri, Getenv(env, "BECKN_BAP_URI", DefaultBapUri)),
     bpp_id |-> Or(given.bpp_id, Getenv(env, "BECKN_BPP_ID", DefaultBppId)),
     bpp_uri |-> Or(given.bpp_uri, Getenv(env, "BECKN_BPP_URI", DefaultBppUri))]

\* self.beckn_client = BecknAPIClient(): the client the agents build, with no arguments
beckn_client == BecknAPIClient(NoArgs, environ)

\* a client that carries one transaction identifier through all its calls
_create_context_carrying_transaction(self, action, domain, ids, env) ==
    create_beckn_context(action, domain, "NANP:628", "USA", self.bap_id, self.bap_uri,
                         self.bpp_id, self.bpp_uri, <<uuid4(0), ids[2]>>, env)

_create_context(self, action, domain, ids, env) ==
    create_beckn_context(action, domain, "NANP:628", "USA", self.bap_id, self.bap_uri,
                         self.bpp_id, self.bpp_uri, ids, env)

\* f"{self.base_url}/{endpoint}"
Url(endpoint) == <<beckn_client.base_url, "/", endpoint>>

\* how requests.post and the server answer one POST: `failure` is the exception of the
\* transport (NoError when a response arrived), then the status code and the body
StatusCodes == {200, 201, 404, 500}
HttpReplies(bodies) ==
    {[failure |-> f, status_code |-> 200, decodable |-> FALSE, body |-> EmptyDict] :
        f \in {"ConnectionError", "Timeout"}}
    \cup {[failure |-> NoError, status_code |-> c, decodable |-> d, body |-> b] :
        c \in StatusCodes, d \in BOOLEAN, b \in bodies}

\* a client that posts again when the first POST fails
make_api_call_with_retry(endpoint, payload, reply) ==
    LET post == [url |-> Url(endpoint), json |-> payload]
        failed == reply.failure /= NoError \/ reply.status_code >= 400 \/ ~reply.decodable
    IN [posts |-> IF failed THEN <<post, post>> ELSE <<post>>,
        value |-> IF failed THEN [error |-> "failed"] ELSE reply.body]

\* the POSTs made and the value returned: response.json(), or {"error": str(e)}
_make_api_call(endpoint, payload, reply) ==
    [posts |-> <<[url |-> Url(endpoint), json |-> payload]>>,
     value |-> IF reply.failure /= NoError THEN [error |-> reply.failure]
               ELSE IF reply.status_code >= 400 THEN [error |-> "HTTPError"]
               ELSE IF ~reply.decodable THEN [error |-> "JSONDecodeError"]
               ELSE reply.body]

NameIntent(query) == [intent |-> [item |-> [descriptor |-> [name |-> query]]]]
OrderOf(provider_id, item_id) ==
    [order |-> [provider |-> [id |-> provider_id], items |-> <<[id |-> item_id]>>]]
GridServicesAgent == [agent |-> [organization |-> [descriptor |-> [name |-> "Grid Services"]]]]

beckn_client_search_subsidies(query, domain, ids, reply) ==
    _make_api_call("search",
        [context |-> _create_context(beckn_client, "search", domain, ids, environ),
         message |-> [descriptor |-> [name |-> query]]], reply)

beckn_client_search_energy_programs(query, domain, ids, reply) ==
    _make_api_call("search",
        [context |-> _create_context(beckn_client, "search", domain, ids, environ), message |-> NameIntent(query)], reply)

beckn_client_search_solar_products(query, domain, ids, reply) ==
    _make_api_call("search",
        [context |-> _create_context(beckn_client, "search", domain, ids, environ), message |-> NameIntent(query)], reply)

beckn_client_search_solar_services(query, domain, ids, reply) ==
    _make_api_call("search",
        [context |-> _create_context(beckn_client, "search", domain, ids, environ),
         message |-> [intent |-> [descriptor |-> [name |-> query]]]], reply)

beckn_client_select_item(provider_id, item_id, domain, ids, reply) ==
    _make_api_call("select",
        [context |-> _create_context(beckn_client, "select", domain, ids, environ),
         message |-> OrderOf(provider_id, item_id)], reply)

beckn_client_init_order(provider_id, item_id, domain, ids, reply) ==
    _make_api_call("init",
        [context |-> _create_context(beckn_client, "init", domain, ids, environ),
         message |-> OrderOf(provider_id, item_id)], reply)

beckn_client_confirm_order(provider_id, item_id, fulfillment_id, customer_info, domain, ids, reply) ==
    _make_api_call("confirm",
        [context |-> _create_context(beckn_client, "confirm", domain, ids, environ),
         message |-> [order |-> [provider |-> [id |-> provider_id],
                                 items |-> <<[id |-> item_id]>>,
                                 fulfillments |-> <<[id |-> fulfillment_id,
                                                     customer |-> customer_info]>>]]], reply)

beckn_client_check_status(order_id, domain, ids, reply) ==
    _make_api_call("status",
        [context |-> _create_context(beckn_client, "status", domain, ids, environ),
         message |-> [order_id |-> order_id]], reply)

beckn_client_search_energy_trading_opportunities(ids, reply) ==
    _make_api_call("search",
        [context |-> _create_context(beckn_client, "search", "uei:p2p_trading", ids, environ),
         message |-> [intent |-> [item |-> [descriptor |-> [name |-> "Solar Surplus Energy"]],
                                  fulfillment |-> GridServicesAgent]]], reply)

\* trade_type is a string; amount is counted in hundredths of a kWh, price in thousandths
\* of a dollar
beckn_client_execute_energy_trade(provider_id, amount, price, trade_type, domain, ids, reply) ==
    _make_api_call("init",
        [context |-> _create_context(beckn_client, "init", domain, ids, environ),
         message |-> [order |->
            [provider |-> [id |-> provider_id],
             items |-> <<[id |-> <<"e","n","e","r","g","y","-">> \o Lower(trade_type),
                          descriptor |-> [name |-> <<"E","n","e","r","g","y"," ">> \o Capitalize(trade_type),
                                          code |-> trade_type],
                          price |-> [value |-> StrThousandths(price), currency |-> "USD/kWH"],
                          quantity |-> [selected |-> [measure |-> [value |-> Str(amount),
                                                                   unit |-> "kWH"]]]]>>,
             billing |-> [name |-> "User", email |-> "user@example.com", phone |-> "+15555555555"],
             fulfillments |-> <<GridServicesAgent>>]]], reply)

beckn_client_search_demand_response_programs(domain, ids, reply) ==
    _make_api_call("search",
        [context |-> _create_context(beckn_client, "search", domain, ids, environ),
         message |-> [intent |-> [category |-> [descriptor |-> [code |-> "demand-response"]]]]], reply)

beckn_client_create_energy_nft(provider_id, energy_amount, domain, ids, reply) ==
    _make_api_call("init",
        [context |-> _create_context(beckn_client, "init", domain, ids, environ),
         message |-> [order |->
            [provider |-> [id |-> provider_id],
             items |-> <<[id |-> <<"e","n","e","r","g","y","-","n","f","t">>,
                          descriptor |-> [name |-> <<"E","n","e","r","g","y"," ","N","F","T">>,
                                          code |-> <<"E","N","E","R","G","Y","_","T","O","K","E","N">>],
                          quantity |-> [measure |-> [value |-> Str(energy_amount),
                                                     unit |-> "kWh"]]]>>]]], reply)

----------------------------------------------------------------------------
(* agents/solar_onboarding_agent.py: SolarOnboardingAgent *)
(* An agent's state is a map from user ids to state objects.  Energy is counted in kWh,  *)
(* rates in cents per kWh, system sizes in tenths of a kW, years and percents in tenths. *)

\* round(n / d, 0) of two integers; a tie is rounded up
Round(n, d) == (2 * n + d) \div (2 * d)

\* a load that makes the map anew around the one entry: self.state = {user_id: state_data}
load_state_anew(agent_state, user_id, state_data) == Put(EmptyDict, user_id, state_data)
\* self.state[user_id] = state_data
load_state(agent_state, user_id, state_data) == Put(agent_state, user_id, state_data)
\* self.state.get(user_id, {}), the same in both agents
get_state(agent_state, user_id) == Get(agent_state, user_id, EmptyDict)
\* a store that keeps nothing of the user's state but the key it writes
StoreAlone(agent_state, user_id, key, value) ==
    Put(agent_state, user_id, Put(EmptyDict, key, value))

\* if user_id in self.state: self.state[user_id][key] = value, else self.state[user_id] = {key: value}
Store(agent_state, user_id, key, value) ==
    IF user_id \in DOMAIN agent_state
    THEN Put(agent_state, user_id, Put(agent_state[user_id], key, value))
    ELSE Put(agent_state, user_id, Put(EmptyDict, key, value))

\* what an agent operation does: the state it leaves, the POSTs it made, the reply the
\* network gave and its outcome
Did(agent_state, client_call, reply, outcome) ==
    [state |-> agent_state, posts |-> client_call.posts, reply |-> reply, result |-> outcome,
     caught |-> NoError]
\* except Exception as e: the handler logs e and returns `value`
Caught(agent_state, client_call, reply, e, value) ==
    [state |-> agent_state, posts |-> client_call.posts, reply |-> reply,
     result |-> Returned(value), caught |-> e]
NoCall == [posts |-> NoPosts, value |-> EmptyDict]

search_subsidies(agent_state, user_id, ids, reply) ==
    LET response == beckn_client_search_subsidies("incentive", "deg:schemes", ids, reply)
        subsidies == extract_subsidies_from_response(response.value)
    IN IF subsidies.raised /= NoError
       THEN Caught(agent_state, response, reply, subsidies.raised, <<>>)
       ELSE Did(Store(agent_state, user_id, "subsidies", subsidies.value), response, reply,
                Returned(subsidies.value))

\* a handler that stores the value it returns
StoreAndReturnFallback(agent_state, user_id, key, response, reply, extracted, fallback) ==
    IF extracted.raised /= NoError
    THEN Caught(Store(agent_state, user_id, key, fallback), response, reply, extracted.raised,
                fallback)
    ELSE Did(Store(agent_state, user_id, key, extracted.value), response, reply,
             Returned(extracted.value))

\* the tail of the operations that store what they extracted: the handler catches what
\* the extraction raised and returns `fallback`, else the result is stored and returned
StoreAndReturn(agent_state, user_id, key, response, reply, extracted, fallback) ==
    IF extracted.raised /= NoError
    THEN Caught(agent_state, response, reply, extracted.raised, fallback)
    ELSE Did(Store(agent_state, user_id, key, extracted.value), response, reply,
             Returned(extracted.value))

search_installers(agent_state, user_id, ids, reply) ==
    LET response == beckn_client_search_solar_services("resi", "deg:service", ids, reply)
    IN StoreAndReturn(agent_state, user_id, "installers", response, reply,
                      extract_installers_from_response(response.value), <<>>)

search_solar_products(agent_state, user_id, ids, reply) ==
    LET response == beckn_client_search_solar_products("solar", "deg:retail", ids, reply)
    IN StoreAndReturn(agent_state, user_id, "products", response, reply,
                      extract_products(response.value), <<>>)

\* for resp in response.get("responses", []): if "message" in resp and "order" in
\* resp["message"]: found = resp["message"]["order"], the loop of the order operations
RECURSIVE InlineOrder(_, _)
InlineOrder(responses, found) ==
    IF responses = <<>> THEN found
    ELSE InlineOrder(Tail(responses),
                     IF Has(Head(responses), "message") /\ Has(Head(responses).message, "order")
                     THEN Head(responses).message.order
                     ELSE found)
\* the order a response ends the loop with: {} when it has no "responses" key
OrderIn(response) ==
    IF Has(response, "responses") THEN InlineOrder(response.responses, EmptyDict) ELSE EmptyDict
\* the three parts select_service keeps of an order
SelectionOf(order) ==
    [provider |-> Get(order, "provider", EmptyDict),
     item |-> IF Get(order, "items", <<>>) /= <<>> THEN order.items[1] ELSE EmptyDict,
     quote |-> Get(order, "quote", EmptyDict)]
\* the loop of select_service
RECURSIVE InlineSelection(_, _)
InlineSelection(responses, found) ==
    IF responses = <<>> THEN found
    ELSE InlineSelection(Tail(responses),
                         IF Has(Head(responses), "message") /\ Has(Head(responses).message, "order")
                         THEN SelectionOf(Head(responses).message.order)
                         ELSE found)
SelectionIn(response) ==
    IF Has(response, "responses") THEN InlineSelection(response.responses, EmptyDict)
    ELSE EmptyDict

select_service(agent_state, user_id, provider_id, service_id, ids, reply) ==
    LET response == beckn_client_select_item(provider_id, service_id, "deg:service", ids, reply)
    IN StoreAndReturn(agent_state, user_id, "selection", response, reply,
                      Returned(SelectionIn(response.value)), EmptyDict)

initialize_order(agent_state, user_id, provider_id, service_id, ids, reply) ==
    LET response == beckn_client_init_order(provider_id, service_id, "deg:service", ids, reply)
    IN StoreAndReturn(agent_state, user_id, "order_init", response, reply,
                      Returned(OrderIn(response.value)), EmptyDict)

confirm_order(agent_state, user_id, provider_id, service_id, fulfillment_id, customer_info, ids, reply) ==
    LET response == beckn_client_confirm_order(provider_id, service_id, fulfillment_id,
                                               customer_info, "deg:schemes", ids, reply)
    IN StoreAndReturn(agent_state, user_id, "order_confirmation", response, reply,
                      Returned(OrderIn(response.value)), EmptyDict)

check_order_status(agent_state, user_id, order_id, ids, reply) ==
    LET response == beckn_client_check_status(order_id, "deg:service", ids, reply)
    IN StoreAndReturn(agent_state, user_id, "order_status", response, reply,
                      Returned(OrderIn(response.value)), EmptyDict)

estimate_roi(agent_state, user_id) ==
    LET user_state == get_state(agent_state, user_id)
        electricity_consumption == Get(user_state, "electricity_consumption", 350)
        electricity_rate == Get(user_state, "electricity_rate", 20)
        \* system_size = consumption * 12 / 1500 kW, system_cost = system_size * 3000 dollars
        system_size_tenths == Round(electricity_consumption * 12 * 10, 1500)
        system_cost == electricity_consumption * 24
        annual_production == electricity_consumption * 12
        \* in cents
        annual_savings == annual_production * electricity_rate
        lifetime_savings == annual_savings * 20
        roi_data ==
            [estimated_system_size_kw |-> system_size_tenths,
             estimated_cost_usd |-> system_cost * 100,
             estimated_annual_production_kwh |-> annual_production,
             estimated_annual_savings_usd |-> annual_savings,
             estimated_payback_years |-> Round(system_cost * 100 * 10, annual_savings),
             estimated_roi_20_year_percent |->
                Round((lifetime_savings - system_cost * 100) * 1000, system_cost * 100)]
    IN \* line 479: system_cost / annual_savings; line 483: ... / system_cost
       IF annual_savings = 0 \/ system_cost = 0
       THEN Did(agent_state, NoCall, NoReply, Raised("ZeroDivisionError"))
       ELSE Did(Store(agent_state, user_id, "roi_estimate", roi_data), NoCall, NoReply,
                Returned(roi_data))

----------------------------------------------------------------------------
(* agents/prosumer_energy_agent.py: ProsumerEnergyAgent *)
(* A date is <<year, month, day>>; a date string is a sequence of characters. *)

IsLeap(y) == (y % 4 = 0 /\ y % 100 /= 0) \/ y % 400 = 0
DaysInMonth(y, m) ==
    IF m = 2 THEN (IF IsLeap(y) THEN 29 ELSE 28)
    ELSE IF m \in {4, 6, 9, 11} THEN 30 ELSE 31
RECURSIVE DaysBeforeMonth(_, _)
DaysBeforeMonth(y, m) == IF m = 1 THEN 0 ELSE DaysBeforeMonth(y, m - 1) + DaysInMonth(y, m - 1)
\* date.toordinal()
ToOrdinal(d) ==
    (d[1] - 1) * 365 + (d[1] - 1) \div 4 - (d[1] - 1) \div 100 + (d[1] - 1) \div 400
    + DaysBeforeMonth(d[1], d[2]) + d[3]
\* date.weekday(): Monday is 0
Weekday(d) == (ToOrdinal(d) + 6) % 7
\* d + timedelta(days=1) and d - timedelta(days=n)
NextDay(d) ==
    IF d[3] < DaysInMonth(d[1], d[2]) THEN <<d[1], d[2], d[3] + 1>>
    ELSE IF d[2] < 12 THEN <<d[1], d[2] + 1, 1>>
    ELSE <<d[1] + 1, 1, 1>>
PrevDay(d) ==
    IF d[3] > 1 THEN <<d[1], d[2], d[3] - 1>>
    ELSE IF d[2] > 1 THEN <<d[1], d[2] - 1, DaysInMonth(d[1], d[2] - 1)>>
    ELSE <<d[1] - 1, 12, 31>>
RECURSIVE MinusDays(_, _)
MinusDays(d, n) == IF n = 0 THEN d ELSE MinusDays(PrevDay(d), n - 1)

\* datetime.strptime(s, "%Y-%m-%d").date(): four digits, one or two, one or two, naming
\* a day of the calendar; anything else is a ValueError
DashAt(s) ==
    IF \E i \in DOMAIN s : s[i] = "-"
    THEN CHOOSE i \in DOMAIN s : s[i] = "-" /\ \A j \in 1..(i - 1) : s[j] /= "-"
    ELSE 0
ParseDate(s) ==
    LET rest == SubSeq(s, DashAt(s) + 1, Len(s))
        y == SubSeq(s, 1, DashAt(s) - 1)
        m == SubSeq(rest, 1, DashAt(rest) - 1)
        d == SubSeq(rest, DashAt(rest) + 1, Len(rest))
    IN IF /\ DashAt(s) > 0 /\ DashAt(rest) > 0
          /\ Len(y) = 4 /\ DigitsOnly(y) /\ NatVal(y) >= 1
          /\ Len(m) \in 1..2 /\ DigitsOnly(m) /\ NatVal(m) \in 1..12
          /\ Len(d) \in 1..2 /\ DigitsOnly(d) /\ NatVal(d) \in 1..DaysInMonth(NatVal(y), NatVal(m))
       THEN Returned(<<NatVal(y), NatVal(m), NatVal(d)>>)
       ELSE Raised("ValueError")
\* d.strftime("%Y-%m-%d")
RECURSIVE ZeroPad(_, _)
ZeroPad(s, width) == IF Len(s) >= width THEN s ELSE ZeroPad(<<"0">> \o s, width)
FormatDate(d) ==
    ZeroPad(NatStr(d[1]), 4) \o <<"-">> \o ZeroPad(NatStr(d[2]), 2) \o <<"-">> \o ZeroPad(NatStr(d[3]), 2)

\* random.uniform(lo, hi), in hundredths: a value just inside either end of the range
Uniform(lo, hi, u) == IF u = 0 THEN lo + 1 ELSE hi - 1

\* lines 149-166: the loop over the days; `random` holds the draws, one per day
RECURSIVE DailyData(_, _, _, _, _)
DailyData(current_date, to_date, system_size_kw, random, k) ==
    IF ToOrdinal(current_date) > ToOrdinal(to_date) THEN <<>>
    ELSE LET weather_factor == IF Weekday(current_date) >= 5 THEN Uniform(95, 110, random[k])
                               ELSE Uniform(80, 105, random[k])
             \* round(system_size_kw * 4.5 * weather_factor, 1), in tenths of a kWh
             daily_kwh == Round(system_size_kw * 45 * weather_factor, 1000)
         IN <<[date |-> FormatDate(current_date), kwh |-> daily_kwh]>>
            \o DailyData(NextDay(current_date), to_date, system_size_kw, random, k + 1)
RECURSIVE TotalKwh(_)
TotalKwh(daily_data) ==
    IF daily_data = <<>> THEN 0 ELSE Head(daily_data).kwh + TotalKwh(Tail(daily_data))

\* the dates a call covers, or the ValueError of the date string that does not parse
DateRange(date_from, date_to, today) ==
    LET from_date == IF date_from = <<>> THEN Returned(MinusDays(today, 7)) ELSE ParseDate(date_from)
        to_date == IF date_to = <<>> THEN Returned(today) ELSE ParseDate(date_to)
    IN IF from_date.raised /= NoError THEN from_date
       ELSE IF to_date.raised /= NoError THEN to_date
       ELSE Returned(<<from_date.value, to_date.value>>)

\* date_from and date_to are date strings, empty when not given; `today` is date.today(),
\* `random` the draws of the random module in call order, `tie` the side to which a
\* carbon offset halfway between two tenths is rounded
search_energy_programs(agent_state, user_id, ids, reply) ==
    LET response == beckn_client_search_energy_programs("Program", "deg:schemes", ids, reply)
    IN StoreAndReturn(agent_state, user_id, "programs", response, reply,
                      extract_energy_programs_from_response(response.value), <<>>)

enroll_in_program(agent_state, user_id, provider_id, program_id, fulfillment_id, customer_info, ids, reply) ==
    LET response == beckn_client_confirm_order(provider_id, program_id, fulfillment_id,
                                               customer_info, "deg:schemes", ids, reply)
    IN StoreAndReturn(agent_state, user_id, "enrollment", response, reply,
                      extract_order_details(response.value), EmptyDict)

get_energy_production(agent_state, user_id, date_from, date_to, today, random, tie) ==
    LET range == DateRange(date_from, date_to, today)
        system_size_kw == Get(get_state(agent_state, user_id), "system_size_kw", 50)
        daily_data == DailyData(range.value[1], range.value[2], system_size_kw, random, 1)
        total_kwh == TotalKwh(daily_data)
    IN IF range.raised /= NoError THEN Did(agent_state, NoCall, NoReply, range)
       ELSE Did(agent_state, NoCall, NoReply,
                Returned([total_kwh |-> total_kwh,
                          daily |-> daily_data,
                          peak_kw |-> Round(system_size_kw * Uniform(85, 95, random[Len(daily_data) + 1]), 100),
                          carbon_offset_kg |-> (total_kwh + tie) \div 2]))

\* prices per kWh are kept in thousandths of a dollar: 0.12 and 0.08
default_settings ==
    [min_sell_price_kwh |-> 120,
     max_buy_price_kwh |-> 80,
     trading_hours |-> "8:00-20:00",
     reserve_capacity_pct |-> 20,
     ai_optimization_target |-> "financial",
     auto_participation |-> TRUE,
     neighbor_sharing_enabled |-> TRUE,
     token_rewards |-> TRUE,
     peak_time_selling |-> TRUE,
     off_peak_buying |-> TRUE]
\* {**a, **b}
Merge(a, b) == [k \in (DOMAIN a) \cup (DOMAIN b) |-> IF k \in DOMAIN b THEN b[k] ELSE a[k]]

\* `now` is datetime.now().isoformat()
enable_auto_trading(agent_state, user_id, settings, now) ==
    LET final_settings == Merge(default_settings, settings)
        stored == Store(agent_state, user_id, "auto_trading", final_settings)
        system_size_kw == Get(get_state(stored, user_id), "system_size_kw", 50)
        \* in tenths
        benefit_factor == IF final_settings.ai_optimization_target = "financial" THEN 9
                          ELSE IF final_settings.ai_optimization_target = "environmental" THEN 7
                          ELSE 8
    IN Did(stored, NoCall, NoReply,
           Returned([status |-> "enabled",
                     configured_at |-> now,
                     settings |-> final_settings,
                     estimated_monthly_benefit_usd |-> system_size_kw * 15 * benefit_factor]))

----------------------------------------------------------------------------
(* The trade operations of the prosumer agent. An amount is counted in hundredths of a  *)
(* kWh, a price per kWh in thousandths of a dollar, an amount of money in cents, a      *)
(* community score in thousandths. A string an f-string builds is the sequence of its   *)
(* parts, a plain string in the same slot a sequence of one part.                       *)

Max(a, b) == IF a >= b THEN a ELSE b
Min(a, b) == IF a <= b THEN a ELSE b
\* round(n / d, digits): to the nearest, and on a value that lies halfway either way,
\* as the binary representation of the product falls (`tie` is 0 or 1)
RoundHalf(n, d, tie) == IF (2 * n) % (2 * d) = d THEN (n \div d) + tie ELSE Round(n, d)
\* s[:4] of the strings the operations slice
FirstFour(s) ==
    CASE s \in {"user-1", "user-2"} -> "user"
      [] s = "renewable_credit" -> "rene"
      [] s = "community_share" -> "comm"
      [] OTHER -> s

\* the opportunities the agent makes up when the network offers none
placeholder_opportunities ==
    <<[id |-> "opp-1", provider_id |-> "grid-op-1", provider_name |-> "Local Grid Operator",
       type |-> "sell_excess",
       name |-> <<"P","e","a","k"," ","H","o","u","r"," ","S","e","l","l","i","n","g">>,
       description |-> "Sell excess solar production during peak hours",
       price_per_kwh |-> 15, currency |-> "USD"],
      [id |-> "opp-2", provider_id |-> "community-1", provider_name |-> "Community Energy Group",
       type |-> "p2p_sharing",
       name |-> <<"C","o","m","m","u","n","i","t","y"," ","S","h","a","r","i","n","g">>,
       description |-> "Share excess with local community energy group",
       price_per_kwh |-> 12, currency |-> "USD"]>>

get_energy_trading_opportunities(agent_state, user_id, ids, reply) ==
    LET response == beckn_client_search_energy_trading_opportunities(ids, reply)
        extracted == extract_energy_trading_opportunities(response.value)
        opportunities == IF extracted.value = <<>> THEN placeholder_opportunities
                         ELSE extracted.value
    IN IF extracted.raised /= NoError
       THEN Caught(agent_state, response, reply, extracted.raised, <<>>)
       ELSE Did(Store(agent_state, user_id, "trading_opportunities", opportunities), response,
                reply, Returned(opportunities))

\* the state left and the value returned; `tie` decides a value halfway between two cents
\* a token that is returned and not kept
create_energy_nft_unkept(agent_state, user_id, nft_type, amount, now, tie) ==
    [state |-> agent_state,
     value |-> [token_id |-> <<"nft-", FirstFour(user_id), "-", FirstFour(nft_type), "-", now>>,
                status |-> "created", type |-> nft_type]]
create_energy_nft(agent_state, user_id, nft_type, amount, now, tie) ==
    LET renewable == nft_type = "renewable_credit"
        token_id == <<"nft-", FirstFour(user_id), "-", FirstFour(nft_type), "-", now>>
        marketplace == IF renewable THEN "GreenToken Exchange" ELSE "FlexChain"
        nft_details ==
            [token_id |-> token_id,
             status |-> "created",
             value_usd |-> IF renewable THEN RoundHalf(amount * 25, 1000, tie) ELSE 1500,
             blockchain |-> IF renewable THEN "Ethereum" ELSE "Polygon",
             contract_address |-> <<"0x">> \o token_id \o <<"abcdef1234567890abcdef12345678">>,
             creation_time |-> now,
             marketplace |-> marketplace,
             marketplace_url |-> <<"https://",
                                   IF renewable THEN "greentokenexchange" ELSE "flexchain",
                                   ".io/token/">> \o token_id,
             type |-> nft_type]
        user_state == get_state(agent_state, user_id)
    IN [state |-> Store(agent_state, user_id, "nfts",
                        Append(Get(user_state, "nfts", <<>>), nft_details)),
        value |-> nft_details]

\* the three prices, of the stored auto_trading settings
SalePriceUnfloored(auto_trading_settings) ==
    Get(auto_trading_settings, "min_sell_price_kwh", 120)
SalePrice(auto_trading_settings) ==
    Max(180, Get(auto_trading_settings, "min_sell_price_kwh", 120))
PurchasePriceRaised(auto_trading_settings) ==
    Max(100, Get(auto_trading_settings, "max_buy_price_kwh", 80))
PurchasePrice(auto_trading_settings) ==
    Min(100, Get(auto_trading_settings, "max_buy_price_kwh", 80))
SharingPrice(auto_trading_settings) ==
    Max(150, (Get(auto_trading_settings, "min_sell_price_kwh", 120) * 9) \div 10)

\* transaction_id: the id of the order the network returned, else one the agent makes up
TransactionId(prefix, user_id, response, now) ==
    LET order == extract_order_details(response).value
    IN IF Has(order, "id") /\ StrTruthy(order.id) THEN <<order.id>>
       ELSE <<prefix, FirstFour(user_id), "-", now>>

\* "Update user stats": a user with a state entry gets the result appended to
\* `transactions` and its amount added to `total`; a user without one gets nothing
UpdateUserStatsLatest(agent_state, user_id, trade_result, total) ==
    IF user_id \in DOMAIN agent_state
    THEN LET user_state == agent_state[user_id]
             appended == Put(user_state, "transactions",
                             Append(Get(user_state, "transactions", <<>>), trade_result))
         IN Put(agent_state, user_id, Put(appended, total, trade_result.total_amount_usd))
    ELSE agent_state
UpdateUserStats(agent_state, user_id, trade_result, total) ==
    IF user_id \in DOMAIN agent_state
    THEN LET user_state == agent_state[user_id]
             appended == Put(user_state, "transactions",
                             Append(Get(user_state, "transactions", <<>>), trade_result))
         IN Put(agent_state, user_id,
                Put(appended, total, Get(user_state, total, 0) + trade_result.total_amount_usd))
    ELSE agent_state

\* the identifiers of the context that follows the one built with `ids`
IdsAfter(ids) == <<uuid4(ids[2]), uuid4(ids[2] + 1)>>
\* the two POSTs of a trade, and what the operation leaves and returns
Traded(agent_state, searched, response, reply, trade_result) ==
    Caught(agent_state, [posts |-> searched.posts \o response.posts], reply, searched.caught,
           trade_result)

execute_grid_sale(agent_state, user_id, amount_kwh, ids, search_reply, reply, now, tie) ==
    LET auto_trading_settings == Get(get_state(agent_state, user_id), "auto_trading", EmptyDict)
        price_per_kwh == SalePrice(auto_trading_settings)
        searched == get_energy_trading_opportunities(agent_state, user_id, ids, search_reply)
        opportunities == searched.result.value
        provider_id == IF opportunities /= <<>> THEN opportunities[1].provider_id ELSE "grid-op-1"
        response == beckn_client_execute_energy_trade(provider_id, amount_kwh, price_per_kwh,
                        <<"S","E","L","L">>, "uei:p2p_trading", IdsAfter(ids), reply)
        minted == IF Get(auto_trading_settings, "token_rewards", FALSE)
                  THEN create_energy_nft(searched.state, user_id, "renewable_credit", amount_kwh,
                                         now, tie)
                  ELSE [state |-> searched.state, value |-> NoneData]
        sale_result ==
            [status |-> "completed",
             transaction_type |-> "grid_sale",
             amount_kwh |-> amount_kwh,
             price_per_kwh |-> price_per_kwh,
             total_amount_usd |-> RoundHalf(amount_kwh * price_per_kwh, 1000, tie),
             transaction_id |-> TransactionId("grid-", user_id, response.value, now),
             timestamp |-> now,
             nft_details |-> minted.value]
    IN Traded(UpdateUserStats(minted.state, user_id, sale_result, "total_earnings"), searched,
              response, reply, sale_result)

execute_grid_purchase(agent_state, user_id, amount_kwh, ids, search_reply, reply, now, tie) ==
    LET auto_trading_settings == Get(get_state(agent_state, user_id), "auto_trading", EmptyDict)
        price_per_kwh == PurchasePrice(auto_trading_settings)
        searched == get_energy_trading_opportunities(agent_state, user_id, ids, search_reply)
        opportunities == searched.result.value
        provider_id == IF opportunities /= <<>> THEN opportunities[1].provider_id ELSE "grid-op-1"
        response == beckn_client_execute_energy_trade(provider_id, amount_kwh, price_per_kwh,
                        <<"B","U","Y">>, "uei:p2p_trading", IdsAfter(ids), reply)
        purchase_result ==
            [status |-> "completed",
             transaction_type |-> "grid_purchase",
             amount_kwh |-> amount_kwh,
             price_per_kwh |-> price_per_kwh,
             total_amount_usd |-> RoundHalf(amount_kwh * price_per_kwh, 1000, tie),
             transaction_id |-> TransactionId("buy-", user_id, response.value, now),
             timestamp |-> now]
    IN Traded(UpdateUserStats(searched.state, user_id, purchase_result, "total_costs"), searched,
              response, reply, purchase_result)

\* [opp for opp in opportunities if opp.get("type") == "p2p_sharing"]
RECURSIVE SharingOnly(_)
SharingOnly(opportunities) ==
    IF opportunities = <<>> THEN <<>>
    ELSE (IF Get(Head(opportunities), "type", None) = "p2p_sharing"
          THEN <<Head(opportunities)>> ELSE <<>>) \o SharingOnly(Tail(opportunities))

\* `draw` is random.randint(1000, 9999), as a string
execute_p2p_sharing(agent_state, user_id, amount_kwh, ids, search_reply, reply, now, tie, draw) ==
    LET user_state == get_state(agent_state, user_id)
        auto_trading_settings == Get(user_state, "auto_trading", EmptyDict)
        price_per_kwh == SharingPrice(auto_trading_settings)
        searched == get_energy_trading_opportunities(agent_state, user_id, ids, search_reply)
        p2p_opportunities == SharingOnly(searched.result.value)
        provider_id == IF p2p_opportunities /= <<>> THEN p2p_opportunities[1].provider_id
                       ELSE "community-1"
        recipient == IF p2p_opportunities /= <<>> THEN <<p2p_opportunities[1].provider_name>>
                     ELSE <<"neighbor-", draw>>
        response == beckn_client_execute_energy_trade(provider_id, amount_kwh, price_per_kwh,
                        <<"S","E","L","L">>, "uei:p2p_trading", IdsAfter(ids), reply)
        minted == IF Get(auto_trading_settings, "token_rewards", FALSE)
                  THEN create_energy_nft(searched.state, user_id, "community_share", amount_kwh,
                                         now, tie)
                  ELSE [state |-> searched.state, value |-> NoneData]
        \* amount_kwh / 10
        community_contribution == amount_kwh
        community_score == Get(user_state, "community_score", 0) + community_contribution
        scored == Store(minted.state, user_id, "community_score", community_score)
        sharing_result ==
            [status |-> "completed",
             transaction_type |-> "p2p_sharing",
             amount_kwh |-> amount_kwh,
             price_per_kwh |-> price_per_kwh,
             total_amount_usd |-> RoundHalf(amount_kwh * price_per_kwh, 1000, tie),
             community_contribution |-> RoundHalf(community_contribution, 100, tie),
             community_score |-> RoundHalf(community_score, 100, tie),
             transaction_id |-> TransactionId("p2p-", user_id, response.value, now),
             timestamp |-> now,
             nft_details |-> minted.value,
             recipient |-> recipient]
    IN Traded(UpdateUserStats(scored, user_id, sharing_result, "total_earnings"), searched,
              response, reply, sharing_result)

\* __init__, lines 22-65: the assistant is available when VERTEX_PROJECT_ID is set and
\* neither the imports nor the construction of the chain raised (`raised` names what did)
ai_available(env, raised) ==
    raised = NoError /\ StrTruthy(Getenv(env, "VERTEX_PROJECT_ID", None))

\* str(i) in ai_decision[:10]
InFirstTen(digit, ai_decision) ==
    \E k \in 1..Min(10, Len(ai_decision)) : ai_decision[k] = digit
\* lines 448-451: the first of 1..4 whose digit is among the first ten characters, as
\* that digit, else None
ActionNum(ai_decision) ==
    IF InFirstTen("1", ai_decision) THEN "1"
    ELSE IF InFirstTen("2", ai_decision) THEN "2"
    ELSE IF InFirstTen("3", ai_decision) THEN "3"
    ELSE IF InFirstTen("4", ai_decision) THEN "4"
    ELSE None
\* a peak test that takes no hour for a peak hour
NeverPeakTime(current_hour) == FALSE /\ 12 <= current_hour
\* 12 <= current_hour <= 20
IsPeakTime(current_hour) == 12 <= current_hour /\ current_hour <= 20
\* current_production > 2.0, with current_production = daily_kwh / 24 and daily_kwh in
\* tenths of a kWh
HasExcess(daily_kwh) == daily_kwh > 480
NoAction == [status |-> "no_action", message |-> <<"Conditions not optimal for trading">>]

\* lines 453-470 and 478-490: the action chosen and the operation it runs.  `decided` is
\* the action number of the assistant, or "rules" when the fixed rules decide.  Amounts
\* are in hundredths of a kWh, kept to the hundredth below: 0.7, 0.8 and 0.6 of
\* daily_kwh / 24
ChosenAction(decided, has_excess, is_peak_time, auto_trading_settings) ==
    IF decided = "rules"
    THEN IF has_excess /\ is_peak_time /\ Get(auto_trading_settings, "peak_time_selling", TRUE)
         THEN "sell_to_grid"
         ELSE IF ~is_peak_time /\ ~has_excess /\ Get(auto_trading_settings, "off_peak_buying", TRUE)
         THEN "buy_from_grid"
         ELSE "no_action"
    ELSE IF decided = "1" /\ has_excess THEN "sell_to_grid"
    ELSE IF decided = "2" /\ has_excess THEN "store_in_battery"
    ELSE IF decided = "3" /\ has_excess /\ Get(auto_trading_settings, "neighbor_sharing_enabled", TRUE)
    THEN "share_with_neighbors"
    ELSE IF decided = "4" /\ ~is_peak_time /\ Get(auto_trading_settings, "off_peak_buying", TRUE)
    THEN "buy_from_grid"
    ELSE "no_action"

RuleExplanation(action) ==
    IF action = "sell_to_grid"
    THEN <<"Selling excess energy during peak hours for maximum profit">>
    ELSE IF action = "buy_from_grid"
    THEN <<"Buying energy during off-peak hours at lower prices">>
    ELSE <<"Current conditions do not warrant trading actions">>

\* lines 425-451: who decides.  "error" when the chain raised
Decided(available, ai_outcome) ==
    IF ~available THEN "rules"
    ELSE IF ai_outcome.raised /= NoError THEN "error"
    ELSE ActionNum(ai_outcome.value)

\* "Store in state": the record is appended to the user's trading_history when the
\* user has a state entry, and returned; `trade` is what the trade made left behind
LogTradingActivity(user_id, trade, trading_record) ==
    Caught(IF user_id \in DOMAIN trade.state
           THEN Store(trade.state, user_id, "trading_history",
                      Append(Get(trade.state[user_id], "trading_history", <<>>), trading_record))
           ELSE trade.state,
           trade, trade.reply, trade.caught, trading_record)
\* "Log the trading activity": the record of the action taken, with the result of the
\* trade made, if one was made
TradingRecord(user_id, action, explanation, is_peak_time, daily_kwh, ai_outcome, now, trade) ==
    LogTradingActivity(user_id, trade,
        [timestamp |-> now,
         user_id |-> user_id,
         action |-> action,
         explanation |-> explanation,
         is_peak_time |-> is_peak_time,
         current_price |-> IF is_peak_time THEN 220 ELSE 80,
         current_production |-> daily_kwh,
         result |-> IF action \in {"sell_to_grid", "share_with_neighbors", "buy_from_grid"}
                    THEN trade.result.value
                    ELSE IF action = "store_in_battery"
                    THEN [status |-> "stored", amount_kwh |-> (daily_kwh * 8) \div 24,
                          message |-> <<"Energy stored in batteries">>]
                    ELSE IF action = "error"
                    THEN [status |-> "error",
                          message |-> <<"AI trading error: ", ai_outcome.raised>>]
                    ELSE NoAction])
\* the branch taken for `action`: the trade it makes, or none
TradeFor(agent_state, user_id, action, explanation, is_peak_time, daily_kwh, ai_outcome, ids, search_reply, reply, now, tie, draw) ==
    TradingRecord(user_id, action, explanation, is_peak_time, daily_kwh, ai_outcome, now,
        IF action = "sell_to_grid"
        THEN execute_grid_sale(agent_state, user_id, (daily_kwh * 7) \div 24, ids,
                               search_reply, reply, now, tie)
        ELSE IF action = "share_with_neighbors"
        THEN execute_p2p_sharing(agent_state, user_id, (daily_kwh * 6) \div 24, ids,
                                 search_reply, reply, now, tie, draw)
        ELSE IF action = "buy_from_grid"
        THEN execute_grid_purchase(agent_state, user_id, 500, ids, search_reply, reply, now,
                                   tie)
        ELSE Caught(agent_state, NoCall, NoReply,
                    IF action = "error" THEN ai_outcome.raised ELSE NoError, EmptyDict))
\* "Make trading decision": the action, and the explanation logged with it
TradingDecision(agent_state, user_id, auto_trading_settings, decided, is_peak_time, daily_kwh, ai_outcome, ids, search_reply, reply, now, tie, draw) ==
    LET action == IF decided = "error" THEN "error"
                  ELSE ChosenAction(decided, HasExcess(daily_kwh), is_peak_time,
                                    auto_trading_settings)
    IN TradeFor(agent_state, user_id, action,
                IF decided = "rules" THEN RuleExplanation(action)
                ELSE IF decided = "error" THEN <<ai_outcome.raised>>
                ELSE ai_outcome.value,
                is_peak_time, daily_kwh, ai_outcome, ids, search_reply, reply, now, tie, draw)
\* production["daily"][-1]["kwh"]
LastDailyKwh(production) ==
    LET daily == production.result.value.daily
    IN daily[Len(daily)].kwh
\* `available` is self.ai_available, `ai_outcome` what self.auto_trade_chain.run does (it
\* returns a text or raises), `current_hour` is datetime.now().hour; the other inputs are
\* those of get_energy_production and of the trade operations
execute_auto_trading(agent_state, user_id, available, ai_outcome, current_hour, today, random, tie, ids, search_reply, reply, now, draw) ==
    LET auto_trading_settings == Get(get_state(agent_state, user_id), "auto_trading", EmptyDict)
    IN IF ~Get(auto_trading_settings, "auto_participation", FALSE)
       THEN Did(agent_state, NoCall, NoReply,
                Returned([status |-> "disabled", message |-> <<"Auto-trading is disabled">>]))
       ELSE TradingDecision(agent_state, user_id, auto_trading_settings,
                            Decided(available, ai_outcome), IsPeakTime(current_hour),
                            LastDailyKwh(get_energy_production(agent_state, user_id, <<>>, <<>>,
                                                               today, random, tie)),
                            ai_outcome, ids, search_reply, reply, now, tie, draw)

----------------------------------------------------------------------------
(* db/user_sessions.py: the session store. A user id is an int or a str, written        *)
(* [int |-> n] or [str |-> s] with s a sequence of characters; the keys of the file are *)
(* strings. A timestamp text is [iso |-> t], the ISO form of the instant t counted in   *)
(* ticks, and [text |-> s] is a text that is no ISO timestamp.                          *)

TicksPerDay == 2
\* str(user_id)
PyStr(user_id) == IF Has(user_id, "int") THEN NatStr(user_id.int) ELSE user_id.str

\* the file after the call (a missing file is created, empty) and the sessions read;
\* `decodable` is false of a file on which open() or json.load() raises (IOError,
\* JSONDecodeError), whatever it holds
_load_sessions(file) ==
    IF ~file.exists THEN [file |-> StoredFile(EmptyDict), sessions |-> EmptyDict]
    ELSE IF ~file.decodable THEN [file |-> file, sessions |-> EmptyDict]
    ELSE [file |-> file, sessions |-> file.sessions]

\* the file after the call and the value returned: True, or False on an IOError
_save_sessions(file, sessions) ==
    IF file.writable THEN [file |-> StoredFile(sessions), value |-> TRUE]
    ELSE [file |-> file, value |-> FALSE]

get_user_session(file, user_id) ==
    LET loaded == _load_sessions(file)
    IN [file |-> loaded.file, value |-> Get(loaded.sessions, PyStr(user_id), EmptyDict)]

\* an update that replaces the session by the data instead of merging the data into it
UpdatedReplacing(sessions, user_id, data, now) ==
    Put(sessions, PyStr(user_id), Put(data, "last_updated", [iso |-> now]))
\* the sessions update_user_session saves, of the sessions it loaded
Updated(sessions, user_id, data, now) ==
    LET key == PyStr(user_id)
        session == Get(sessions, key, EmptyDict)
    IN Put(sessions, key, Put(Merge(session, data), "last_updated", [iso |-> now]))

update_user_session(file, user_id, data, now) ==
    LET loaded == _load_sessions(file)
    IN _save_sessions(loaded.file, Updated(loaded.sessions, user_id, data, now))

\* a caller that reads the store again at the moment it saves
SavedAfterReload(file, writer, now) ==
    _save_sessions(file, Updated(_load_sessions(file).sessions, writer.user_id, writer.data, now))
\* what a caller of update_user_session writes when it saves: the sessions it loaded
\* at the start of the call, with its update
Saved(file, writer, now) ==
    _save_sessions(file, Updated(writer.sessions, writer.user_id, writer.data, now))

\* del sessions[key]
Without(sessions, keys) == [k \in (DOMAIN sessions) \ keys |-> sessions[k]]

delete_user_session(file, user_id) ==
    LET loaded == _load_sessions(file)
        key == PyStr(user_id)
    IN IF key \in DOMAIN loaded.sessions
       THEN _save_sessions(loaded.file, Without(loaded.sessions, {key}))
       ELSE [file |-> loaded.file, value |-> TRUE]

get_all_sessions(file) ==
    LET loaded == _load_sessions(file)
    IN [file |-> loaded.file, value |-> loaded.sessions]

\* (now - last_updated).days: the whole days of the difference, rounded down
DaysOld(last_updated, now) == (now - last_updated.iso) \div TicksPerDay
\* a sweep that also removes the sessions that are exactly `days` days old
OlderOrAsOld(sessions, days, now) ==
    {k \in DOMAIN sessions :
        /\ Has(sessions[k], "last_updated")
        /\ Has(sessions[k].last_updated, "iso")
        /\ DaysOld(sessions[k].last_updated, now) >= days}
\* the keys the sweep deletes: a session without last_updated is skipped, one whose
\* last_updated does not parse is logged and kept
Older(sessions, days, now) ==
    {k \in DOMAIN sessions :
        /\ Has(sessions[k], "last_updated")
        /\ Has(sessions[k].last_updated, "iso")
        /\ DaysOld(sessions[k].last_updated, now) > days}

clear_old_sessions(file, days, now) ==
    LET loaded == _load_sessions(file)
        removed == Older(loaded.sessions, days, now)
        removed_count == Cardinality(removed)
    IN [file |-> IF removed_count > 0
                 THEN _save_sessions(loaded.file, Without(loaded.sessions, removed)).file
                 ELSE loaded.file,
        value |-> removed_count]

----------------------------------------------------------------------------
(* The responses the extractors are applied to *)

SeqsUpTo(S, n) == UNION {[1..k -> S] : k \in 0..n}
\* the objects of S, and each of them with key k set to a value of V
Optional(S, k, V) == S \cup {Put(d, k, v) : d \in S, v \in V}

PeakHourSelling == <<"P","e","a","k"," ","H","o","u","r"," ","S","e","l","l","i","n","g">>
OffPeakBuy == <<"O","f","f","-","P","e","a","k"," ","B","u","y">>
CommunityShare == <<"C","o","m","m","u","n","i","t","y"," ","S","h","a","r","e">>
SellOrBuy == <<"S","E","L","L"," ","o","r"," ","b","u","y">>
SolarKit == <<"S","o","l","a","r"," ","K","i","t">>
Price2999 == StrVal(<<"2","9","9","9",".","0","0">>)
Price018 == StrVal(<<"0",".","1","8">>)
Price020Suffixed == StrVal(<<"0",".","2","0"," ","U","S","D","/","k","W","H">>)
PriceGarbage == StrVal(<<"a","b","c">>)

\* well-formed providers, for the walk over responses, providers and items
ItemA1 == [id |-> "item-1", descriptor |-> [name |-> SolarKit],
           price |-> [value |-> Price2999, currency |-> "USD"]]
ItemA2 == [id |-> "item-2", descriptor |-> [name |-> PeakHourSelling, code |-> "sell_excess"],
           price |-> [value |-> NumVal(18), currency |-> "USD"]]
ItemB1 == [id |-> "item-3"]
ProviderA == [id |-> "prov-1", descriptor |-> [name |-> "SunPower Co"],
              fulfillments |-> <<[id |-> "f1"]>>, items |-> <<ItemA1, ItemA2>>]
ProviderB == [id |-> "prov-2", fulfillments |-> <<[id |-> "f2"]>>, items |-> <<ItemB1>>]

Catalog(providers) == [message |-> [catalog |-> [providers |-> providers]]]
OrderResponse(order) == [message |-> [order |-> order]]
Orders == {[id |-> "order-1"], [id |-> "order-2"]}

EnvelopeResponses ==
    {EmptyDict, [context |-> "ctx"], [message |-> EmptyDict], [message |-> [catalog |-> EmptyDict]]}
    \cup {Catalog(ps) : ps \in SeqsUpTo({ProviderA, ProviderB}, MaxProviders)}
    \cup {OrderResponse(o) : o \in Orders}

EnvelopeFixtures ==
    {NoneData, EmptyDict, [error |-> "503 Server Error"]}
    \cup {[responses |-> rs] : rs \in SeqsUpTo(EnvelopeResponses, MaxResponses)}

\* one provider with any subset of its optional keys, holding at most one item with any
\* subset of the item's optional keys
TagEntryK1V1 == [descriptor |-> [description |-> "k1", name |-> "Source Type"], value |-> "v1"]
OptionalItems ==
    Optional(Optional(Optional(Optional({[id |-> "item-1"]},
        "descriptor", {[name |-> SolarKit], [name |-> SolarKit, images |-> <<[url |-> "u1"]>>]}),
        "price", {[value |-> Price2999, currency |-> "USD"]}),
        "quantity", {[available |-> [measure |-> [value |-> "10"]]]}),
        "tags", {<<[descriptor |-> [description |-> "A"], list |-> <<TagEntryK1V1>>]>>,
                 <<[descriptor |-> [description |-> "A"]]>>})
OptionalProviders ==
    Optional(Optional(Optional(Optional({[id |-> "prov-1"]},
        "descriptor", {[name |-> "SunPower Co", short_desc |-> "solar"],
                       [name |-> "SunPower Co", images |-> <<[url |-> "u2"]>>]}),
        "locations", {<<[gps |-> "12.9,77.6", address |-> "MG Road"]>>}),
        "fulfillments", {<<[id |-> "f1"]>>}),
        "items", {<<i>> : i \in OptionalItems})
OptionalKeyFixtures == {[responses |-> <<Catalog(<<p>>)>>] : p \in OptionalProviders}

\* one item's tags: every list of groups with at most MaxTagSize groups and entries in all
TagEntries ==
    {TagEntryK1V1,
     [descriptor |-> [description |-> "k1"], value |-> "v2"],
     [descriptor |-> [description |-> "k2"], value |-> "v1"],
     [descriptor |-> [code |-> "c1"], value |-> "v1"],
     [descriptor |-> EmptyDict, value |-> "v1"],
     [descriptor |-> [description |-> "k2"]]}
TagDescriptors ==
    {[description |-> "A", name |-> "Energy Attributes"], [description |-> "B"], [code |-> "C"]}
TagGroups(size) ==
    {[descriptor |-> d, list |-> l] : d \in TagDescriptors, l \in [1..(size - 1) -> TagEntries]}
RECURSIVE TagLists(_)
TagLists(size) ==
    {<<>>} \cup UNION {{<<g>> \o rest : g \in TagGroups(k), rest \in TagLists(size - k)} : k \in 1..size}
TaggedItem(tags) == [id |-> "item-1", descriptor |-> [name |-> SolarKit], tags |-> tags]
TaggedProvider(tags) ==
    [id |-> "prov-1", fulfillments |-> <<[id |-> "f1"]>>, items |-> <<TaggedItem(tags)>>]
TagFixtures == {[responses |-> <<Catalog(<<TaggedProvider(t)>>)>>] : t \in TagLists(MaxTagSize)}

\* one provider whose items carry the price values and display names of the protocol
PriceValues == {Price018, Price020Suffixed, PriceGarbage, NumVal(18)}
ItemDescriptors ==
    {[name |-> PeakHourSelling], [name |-> OffPeakBuy], [name |-> CommunityShare],
     [name |-> SellOrBuy], [name |-> OffPeakBuy, code |-> "buy_energy"]}
PricedItems ==
    Optional(Optional({[id |-> "item-1"]}, "descriptor", ItemDescriptors),
             "price", {[value |-> v] : v \in PriceValues})
FollowingItems ==
    {[id |-> "item-2", descriptor |-> [name |-> PeakHourSelling], price |-> [value |-> Price018]],
     [id |-> "item-3", descriptor |-> [name |-> OffPeakBuy], price |-> [value |-> Price020Suffixed]],
     [id |-> "item-4", descriptor |-> [name |-> CommunityShare], price |-> [value |-> PriceGarbage]]}
PricedProvider(items) == [id |-> "prov-1", fulfillments |-> <<[id |-> "f1"]>>, items |-> items]
PriceFixtures ==
    {[responses |-> <<Catalog(<<PricedProvider(<<i>> \o rest)>>)>>] :
        i \in PricedItems, rest \in SeqsUpTo(FollowingItems, MaxItems - 1)}

Fixtures == EnvelopeFixtures \cup OptionalKeyFixtures \cup PriceFixtures

----------------------------------------------------------------------------
(* The extractors as operations on a response *)

NoUsers == EmptyDict

InitWith(responses) ==
    /\ response_data \in responses
    /\ called = "none"
    /\ result = Returned(<<>>)
    /\ posts = NoPosts
    /\ network = NoReply
    /\ state = NoUsers
    /\ uuids = 0
    /\ environ = NoEnviron
    /\ args = NoArgs
    /\ session_file = NoFile
    /\ writers = NoWriters
    /\ clock = 0
    /\ caught = NoError
    /\ solo = NoSolo

InitExtract == InitWith(Fixtures)
InitTags == InitWith(TagFixtures)

\* an extractor is applied once to the response at hand
Apply(name, r) ==
    /\ called = "none"
    /\ called' = name
    /\ result' = r
    /\ UNCHANGED <<response_data, posts, network, state, uuids, identity_vars, store_vars, caught, solo>>

ExtractSubsidies == Apply("extract_subsidies_from_response", extract_subsidies_from_response(response_data))
ExtractInstallers == Apply("extract_installers_from_response", extract_installers_from_response(response_data))
ExtractPrograms == Apply("extract_energy_programs_from_response", extract_energy_programs_from_response(response_data))
ExtractOpportunities == Apply("extract_energy_trading_opportunities", extract_energy_trading_opportunities(response_data))
ClientExtractOpportunities ==
    Apply("api_client.extract_energy_trading_opportunities",
          client_extract_energy_trading_opportunities(response_data))
ExtractOrderDetails == Apply("extract_order_details", extract_order_details(response_data))
\* the client hands search_solar_products a JSON object, never None
ExtractProducts ==
    /\ response_data /= NoneData
    /\ Apply("search_solar_products", extract_products(response_data))

NextExtract ==
    \/ ExtractSubsidies
    \/ ExtractInstallers
    \/ ExtractPrograms
    \/ ExtractOpportunities
    \/ ClientExtractOpportunities
    \/ ExtractOrderDetails
    \/ ExtractProducts

SpecExtract == InitExtract /\ [][NextExtract]_vars

\* the extractors that read an item's tags, on the tag fixtures
NextTags ==
    \/ ExtractSubsidies
    \/ ExtractInstallers
    \/ ExtractPrograms
    \/ ExtractOpportunities
    \/ ClientExtractOpportunities

SpecTags == InitTags /\ [][NextTags]_vars

----------------------------------------------------------------------------
(* The protocol methods of BecknAPIClient as operations *)

\* the two identifiers create_beckn_context draws next, in call order
IdPairs == {<<uuid4(uuids), uuid4(uuids + 1)>>}
ProviderIds == {"prov-1", "grid-op-1"}
ItemIds == {"item-1", "item-2"}
Queries == {"incentive", "Program", "solar", "resi"}
Domains == {"deg:schemes", "deg:retail", "deg:service"}
TradeTypes == {<<"S","E","L","L">>, <<"B","U","Y">>}
TradeAmounts == {500, 1250}
TradePrices == {180, 100}
CustomerInfos == {[person |-> [name |-> "Ada"], contact |-> [phone |-> "876756454", email |-> "ada@example.com"]]}
\* the bodies a server sends with a response
ClientBodies ==
    {[responses |-> <<>>],
     [responses |-> <<Catalog(<<ProviderB>>)>>],
     [responses |-> <<OrderResponse([id |-> "order-1"])>>]}

InitClient == InitWith(ClientBodies)

\* one call of a client method: its POSTs are made and its value is returned
Call(name, r, reply) ==
    /\ called = "none"
    /\ called' = name
    /\ posts' = posts \o r.posts
    /\ network' = reply
    /\ result' = Returned(r.value)
    /\ uuids' = uuids + 2 * Len(r.posts)
    /\ UNCHANGED <<response_data, state, identity_vars, store_vars, caught, solo>>

ClientSearchSubsidies ==
    \E query \in Queries, domain \in Domains, ids \in IdPairs, reply \in HttpReplies({response_data}) :
        Call("beckn_client.search_subsidies", beckn_client_search_subsidies(query, domain, ids, reply), reply)
ClientSearchEnergyPrograms ==
    \E query \in Queries, domain \in Domains, ids \in IdPairs, reply \in HttpReplies({response_data}) :
        Call("beckn_client.search_energy_programs",
             beckn_client_search_energy_programs(query, domain, ids, reply), reply)
ClientSearchSolarProducts ==
    \E query \in Queries, domain \in Domains, ids \in IdPairs, reply \in HttpReplies({response_data}) :
        Call("beckn_client.search_solar_products",
             beckn_client_search_solar_products(query, domain, ids, reply), reply)
ClientSearchSolarServices ==
    \E query \in Queries, domain \in Domains, ids \in IdPairs, reply \in HttpReplies({response_data}) :
        Call("beckn_client.search_solar_services",
             beckn_client_search_solar_services(query, domain, ids, reply), reply)
ClientSelectItem ==
    \E provider_id \in ProviderIds, item_id \in ItemIds, domain \in Domains, ids \in IdPairs,
       reply \in HttpReplies({response_data}) :
        Call("beckn_client.select_item",
             beckn_client_select_item(provider_id, item_id, domain, ids, reply), reply)
ClientInitOrder ==
    \E provider_id \in ProviderIds, item_id \in ItemIds, domain \in Domains, ids \in IdPairs,
       reply \in HttpReplies({response_data}) :
        Call("beckn_client.init_order",
             beckn_client_init_order(provider_id, item_id, domain, ids, reply), reply)
ClientConfirmOrder ==
    \E provider_id \in ProviderIds, item_id \in ItemIds, customer_info \in CustomerInfos,
       domain \in Domains, ids \in IdPairs, reply \in HttpReplies({response_data}) :
        Call("beckn_client.confirm_order",
             beckn_client_confirm_order(provider_id, item_id, "f1", customer_info, domain, ids, reply), reply)
ClientCheckStatus ==
    \E order_id \in {"order-1", "order-2"}, domain \in Domains, ids \in IdPairs,
       reply \in HttpReplies({response_data}) :
        Call("beckn_client.check_status", beckn_client_check_status(order_id, domain, ids, reply), reply)
ClientSearchEnergyTradingOpportunities ==
    \E ids \in IdPairs, reply \in HttpReplies({response_data}) :
        Call("beckn_client.search_energy_trading_opportunities",
             beckn_client_search_energy_trading_opportunities(ids, reply), reply)
ClientExecuteEnergyTrade ==
    \E provider_id \in ProviderIds, amount \in TradeAmounts, price \in TradePrices,
       trade_type \in TradeTypes, ids \in IdPairs, reply \in HttpReplies({response_data}) :
        Call("beckn_client.execute_energy_trade",
             beckn_client_execute_energy_trade(provider_id, amount, price, trade_type,
                                               "uei:p2p_trading", ids, reply), reply)
ClientSearchDemandResponsePrograms ==
    \E ids \in IdPairs, reply \in HttpReplies({response_data}) :
        Call("beckn_client.search_demand_response_programs",
             beckn_client_search_demand_response_programs("deg:programs", ids, reply), reply)
ClientCreateEnergyNft ==
    \E provider_id \in ProviderIds, energy_amount \in TradeAmounts, ids \in IdPairs,
       reply \in HttpReplies({response_data}) :
        Call("beckn_client.create_energy_nft",
             beckn_client_create_energy_nft(provider_id, energy_amount, "deg:tokens", ids, reply), reply)

NextClient ==
    \/ ClientSearchSubsidies
    \/ ClientSearchEnergyPrograms
    \/ ClientSearchSolarProducts
    \/ ClientSearchSolarServices
    \/ ClientSelectItem
    \/ ClientInitOrder
    \/ ClientConfirmOrder
    \/ ClientCheckStatus
    \/ ClientSearchEnergyTradingOpportunities
    \/ ClientExecuteEnergyTrade
    \/ ClientSearchDemandResponsePrograms
    \/ ClientCreateEnergyNft

SpecClient == InitClient /\ [][NextClient]_vars

----------------------------------------------------------------------------
(* A sequence of protocol calls of one client: the calls of an order (select, init,     *)
(* confirm, status) and a search, in any order and number up to MaxCalls                 *)

MaxCalls == 4
\* the replies of the flow: the transport fails, or the server answers with the body
FlowReplies ==
    {[failure |-> "ConnectionError", status_code |-> 200, decodable |-> FALSE, body |-> EmptyDict],
     [failure |-> NoError, status_code |-> 200, decodable |-> TRUE, body |-> response_data]}

InitFlow == InitWith({[responses |-> <<OrderResponse([id |-> "order-1"])>>]})

\* one more call of a client method: its POST follows the earlier ones
Then(name, r, reply) ==
    /\ Len(posts) < MaxCalls
    /\ called' = name
    /\ posts' = posts \o r.posts
    /\ network' = reply
    /\ result' = Returned(r.value)
    /\ uuids' = uuids + 2 * Len(r.posts)
    /\ UNCHANGED <<response_data, state, identity_vars, store_vars, caught, solo>>

FlowSearch ==
    \E ids \in IdPairs, reply \in FlowReplies :
        Then("beckn_client.search_solar_products",
             beckn_client_search_solar_products("solar", "deg:retail", ids, reply), reply)
FlowSelect ==
    \E ids \in IdPairs, reply \in FlowReplies :
        Then("beckn_client.select_item",
             beckn_client_select_item("prov-1", "item-1", "deg:retail", ids, reply), reply)
FlowInit ==
    \E ids \in IdPairs, reply \in FlowReplies :
        Then("beckn_client.init_order",
             beckn_client_init_order("prov-1", "item-1", "deg:retail", ids, reply), reply)
FlowConfirm ==
    \E customer_info \in CustomerInfos, ids \in IdPairs, reply \in FlowReplies :
        Then("beckn_client.confirm_order",
             beckn_client_confirm_order("prov-1", "item-1", "f1", customer_info, "deg:retail",
                                        ids, reply), reply)
FlowStatus ==
    \E ids \in IdPairs, reply \in FlowReplies :
        Then("beckn_client.check_status",
             beckn_client_check_status("order-1", "deg:retail", ids, reply), reply)

NextFlow == FlowSearch \/ FlowSelect \/ FlowInit \/ FlowConfirm \/ FlowStatus
SpecFlow == InitFlow /\ [][NextFlow]_vars

----------------------------------------------------------------------------
(* The network identity of a context: one context is built, by create_beckn_context     *)
(* called with the explicit arguments or by a client constructed with them               *)

IdentityFields == {"bap_id", "bap_uri", "bpp_id", "bpp_uri"}
EnvironName == [bap_id |-> "BECKN_BAP_ID", bap_uri |-> "BECKN_BAP_URI",
                bpp_id |-> "BECKN_BPP_ID", bpp_uri |-> "BECKN_BPP_URI"]
\* what a caller may pass for a field: nothing (None), an empty string, an identity
ExplicitArgs ==
    {[base_url |-> None, bap_id |-> a, bap_uri |-> b, bpp_id |-> c, bpp_uri |-> d] :
        a \in {None, "", "bap.example"}, b \in {None, "", "https://bap.example"},
        c \in {None, "", "bpp.example"}, d \in {None, "", "https://bpp.example"}}
\* the configurations: any of the four variables set, each to a value of its own
Configuration == [BECKN_BAP_ID |-> "bap.env.example", BECKN_BAP_URI |-> "https://bap.env.example",
                  BECKN_BPP_ID |-> "bpp.env.example", BECKN_BPP_URI |-> "https://bpp.env.example"]
Environs ==
    {[n \in {EnvironName[f] : f \in set} |-> Configuration[n]] : set \in SUBSET IdentityFields}

InitIdentity ==
    /\ response_data = [responses |-> <<>>]
    /\ called = "none"
    /\ result = Returned(<<>>)
    /\ posts = NoPosts
    /\ network = NoReply
    /\ state = NoUsers
    /\ uuids = 0
    /\ environ \in Environs
    /\ args \in ExplicitArgs
    /\ session_file = NoFile
    /\ writers = NoWriters
    /\ clock = 0
    /\ caught = NoError
    /\ solo = NoSolo

\* one context is built and returned
Builds(name, context) ==
    /\ called = "none"
    /\ called' = name
    /\ result' = Returned(context)
    /\ uuids' = uuids + 2
    /\ UNCHANGED <<response_data, posts, network, state, identity_vars, store_vars, caught, solo>>

CreateBecknContext ==
    \E action \in {"search", "confirm"}, ids \in IdPairs :
        Builds("create_beckn_context",
               create_beckn_context(action, "deg:schemes", "NANP:628", "USA", args.bap_id,
                                    args.bap_uri, args.bpp_id, args.bpp_uri, ids, environ))
ClientCreateContext ==
    \E action \in {"search", "confirm"}, ids \in IdPairs :
        Builds("BecknAPIClient._create_context",
               _create_context(BecknAPIClient(args, environ), action, "deg:schemes", ids, environ))

NextIdentity == CreateBecknContext \/ ClientCreateContext
SpecIdentity == InitIdentity /\ [][NextIdentity]_vars

----------------------------------------------------------------------------
(* The public operations of the agents; a behaviour loads user states, then follows one *)
(* operation of the agent                                                               *)

UserIds == {"user-1", "user-2"}
\* the bodies a search is answered with: no response, a catalog, a catalog whose provider
\* lists no fulfillments
AgentBodies ==
    {[responses |-> <<>>],
     [responses |-> <<Catalog(<<ProviderA>>)>>],
     [responses |-> <<Catalog(<<[id |-> "prov-1", items |-> <<ItemB1>>]>>)>>]}
SolarStateData ==
    {EmptyDict,
     [electricity_consumption |-> 0],
     [electricity_rate |-> 0],
     [electricity_consumption |-> 350, electricity_rate |-> 20],
     [electricity_consumption |-> 500, electricity_rate |-> 8]}
ProsumerStateData == {EmptyDict, [system_size_kw |-> 80, months_active |-> 6]}
AutoTradingSettings ==
    {EmptyDict,
     [ai_optimization_target |-> "environmental"],
     [ai_optimization_target |-> "balanced", min_sell_price_kwh |-> 200, auto_participation |-> FALSE]}
\* the date strings of a call: not given, three days, a day without zero padding, a day
\* that is not in the calendar and a word
DateArgs ==
    {<<>>,
     <<"2","0","2","5","-","0","2","-","2","7">>,
     <<"2","0","2","5","-","0","3","-","0","1">>,
     <<"2","0","2","5","-","2","-","2","8">>,
     <<"2","0","2","5","-","0","2","-","3","0">>,
     <<"t","o","d","a","y">>}
Todays == {<<2025, 3, 2>>}
Now == "now"

InitSolar == InitWith(AgentBodies)
InitProsumer == InitWith({[responses |-> <<>>]})

LoadState(data) ==
    /\ called \in {"none", "load_state"}
    /\ \E user_id \in UserIds, state_data \in data :
        /\ state' = load_state(state, user_id, state_data)
        /\ called' = "load_state"
        /\ result' = Returned(NoneData)
        /\ posts' = NoPosts
        /\ network' = NoReply
        /\ caught' = NoError
    /\ UNCHANGED <<response_data, uuids, identity_vars, store_vars, solo>>
SolarLoadState == LoadState(SolarStateData)
ProsumerLoadState == LoadState(ProsumerStateData)

Does(name, did) ==
    /\ called \in {"none", "load_state"}
    /\ called' = name
    /\ state' = did.state
    /\ posts' = did.posts
    /\ network' = did.reply
    /\ result' = did.result
    /\ caught' = did.caught
    /\ uuids' = uuids + 2 * Len(did.posts)
    /\ UNCHANGED <<response_data, identity_vars, store_vars, solo>>

SearchSubsidies ==
    \E user_id \in UserIds, ids \in IdPairs, reply \in HttpReplies({response_data}) :
        Does("search_subsidies", search_subsidies(state, user_id, ids, reply))
EstimateRoi ==
    \E user_id \in UserIds : Does("estimate_roi", estimate_roi(state, user_id))

\* the number of draws a call makes: one per day of its range and one for the peak
Draws(date_from, date_to, today) ==
    LET range == DateRange(date_from, date_to, today)
    IN IF range.raised /= NoError \/ ToOrdinal(range.value[1]) > ToOrdinal(range.value[2]) THEN 1
       ELSE ToOrdinal(range.value[2]) - ToOrdinal(range.value[1]) + 2
GetEnergyProduction ==
    \E user_id \in UserIds, date_from \in DateArgs, date_to \in DateArgs, today \in Todays :
        \E random \in [1..Draws(date_from, date_to, today) -> {0, 1}], tie \in {0, 1} :
            Does("get_energy_production",
                 get_energy_production(state, user_id, date_from, date_to, today, random, tie))
EnableAutoTrading ==
    \E user_id \in UserIds, settings \in AutoTradingSettings :
        Does("enable_auto_trading", enable_auto_trading(state, user_id, settings, Now))

\* the search and order operations of the two agents, which store what they return
SearchInstallers ==
    \E user_id \in UserIds, ids \in IdPairs, reply \in HttpReplies({response_data}) :
        Does("search_installers", search_installers(state, user_id, ids, reply))
SearchSolarProducts ==
    \E user_id \in UserIds, ids \in IdPairs, reply \in HttpReplies({response_data}) :
        Does("search_solar_products", search_solar_products(state, user_id, ids, reply))
SelectService ==
    \E user_id \in UserIds, ids \in IdPairs, reply \in HttpReplies({response_data}) :
        Does("select_service", select_service(state, user_id, "prov-1", "item-1", ids, reply))
InitializeOrder ==
    \E user_id \in UserIds, ids \in IdPairs, reply \in HttpReplies({response_data}) :
        Does("initialize_order", initialize_order(state, user_id, "prov-1", "item-1", ids, reply))
ConfirmOrder ==
    \E user_id \in UserIds, customer_info \in CustomerInfos, ids \in IdPairs,
       reply \in HttpReplies({response_data}) :
        Does("confirm_order",
             confirm_order(state, user_id, "prov-1", "item-1", "f1", customer_info, ids, reply))
CheckOrderStatus ==
    \E user_id \in UserIds, ids \in IdPairs, reply \in HttpReplies({response_data}) :
        Does("check_order_status", check_order_status(state, user_id, "order-1", ids, reply))
SearchEnergyPrograms ==
    \E user_id \in UserIds, ids \in IdPairs, reply \in HttpReplies({response_data}) :
        Does("search_energy_programs", search_energy_programs(state, user_id, ids, reply))
EnrollInProgram ==
    \E user_id \in UserIds, customer_info \in CustomerInfos, ids \in IdPairs,
       reply \in HttpReplies({response_data}) :
        Does("enroll_in_program",
             enroll_in_program(state, user_id, "prov-1", "item-2", "f1", customer_info, ids, reply))

\* the bodies the operations are answered with: nothing, a catalog without providers,
\* one provider offering one item,
\* a provider with two items, an item whose image list is empty, two orders
OneProviderOneItem ==
    [responses |-> <<Catalog(<<[id |-> "prov-1", descriptor |-> [name |-> "SunPower Co"],
                               items |-> <<ItemA1>>]>>)>>]
SearchOrderBodies ==
    {[responses |-> <<>>],
     [responses |-> <<Catalog(<<>>)>>],
     OneProviderOneItem,
     [responses |-> <<Catalog(<<ProviderA>>)>>],
     [responses |-> <<Catalog(<<[id |-> "prov-1",
                                 items |-> <<[id |-> "item-1", descriptor |-> [images |-> <<>>]]>>]>>)>>],
     [responses |-> <<OrderResponse([id |-> "order-1", provider |-> [id |-> "prov-1"],
                                     items |-> <<[id |-> "item-1"]>>, quote |-> [price |-> "2999.00"]]),
                      OrderResponse([id |-> "order-2"])>>]}
\* the states loaded before: none, one without and one with the keys the operations write
StoredStateData ==
    {EmptyDict,
     [address |-> "12 Main St"],
     [address |-> "12 Main St", roi_estimate |-> [estimated_cost_usd |-> 840000],
      subsidies |-> <<[id |-> "stale"]>>, installers |-> <<[id |-> "stale"]>>,
      products |-> <<[id |-> "stale"]>>, programs |-> <<[id |-> "stale"]>>,
      enrollment |-> [id |-> "stale"], selection |-> [id |-> "stale"],
      order_init |-> [id |-> "stale"], order_confirmation |-> [id |-> "stale"],
      order_status |-> [id |-> "stale"]]}

InitSearchOrder == InitWith(SearchOrderBodies)
SearchOrderLoadState == LoadState(StoredStateData)
NextSearchOrder ==
    \/ SearchOrderLoadState
    \/ SearchSubsidies
    \/ SearchInstallers
    \/ SearchSolarProducts
    \/ SelectService
    \/ InitializeOrder
    \/ ConfirmOrder
    \/ CheckOrderStatus
    \/ SearchEnergyPrograms
    \/ EnrollInProgram
SpecSearchOrder == InitSearchOrder /\ [][NextSearchOrder]_vars

\* the trades of the prosumer agent: each makes a search and posts the trade
\* the replies to a POST of a trade: the transport fails, the server refuses, the body
\* does not decode, or one of the bodies arrives
TradeBodies ==
    {[responses |-> <<>>],
     [responses |-> <<Catalog(<<[id |-> "prov-1", descriptor |-> [name |-> "SunPower Co"],
                                 items |-> <<ItemA2, [id |-> "item-9", descriptor |-> [code |-> "p2p_sharing"]]>>]>>)>>],
     [responses |-> <<Catalog(<<[id |-> "prov-1",
                                 items |-> <<[id |-> "item-1", price |-> [value |-> Price020Suffixed]]>>]>>)>>],
     [responses |-> <<Catalog(<<[id |-> "community-9", descriptor |-> [name |-> "Elm Street"],
                                 items |-> <<[id |-> "item-9", descriptor |-> [code |-> "p2p_sharing"]]>>],
                                [id |-> "grid-7", items |-> <<ItemA2>>]>>)>>],
     [responses |-> <<OrderResponse([id |-> "order-1"])>>]}
TradeReplies ==
    {[failure |-> "ConnectionError", status_code |-> 200, decodable |-> FALSE, body |-> EmptyDict],
     [failure |-> NoError, status_code |-> 500, decodable |-> TRUE, body |-> [responses |-> <<>>]],
     [failure |-> NoError, status_code |-> 200, decodable |-> FALSE, body |-> [responses |-> <<>>]]}
    \cup {[failure |-> NoError, status_code |-> 200, decodable |-> TRUE, body |-> b] : b \in TradeBodies}
\* the amounts traded: 5.0 kWh and 12.5 kWh
AmountsKwh == {500, 1250}
\* the states loaded before: an empty one, one with settings and token rewards, one with
\* a buying limit above the cap and earlier trades, one with a high selling limit, token
\* rewards and an earlier token
TradeStateData ==
    {EmptyDict,
     [auto_trading |-> [min_sell_price_kwh |-> 200, max_buy_price_kwh |-> 90, token_rewards |-> TRUE]],
     [auto_trading |-> [max_buy_price_kwh |-> 150, token_rewards |-> FALSE],
      transactions |-> <<[status |-> "completed", transaction_type |-> "grid_sale",
                          total_amount_usd |-> 90]>>,
      total_earnings |-> 90, total_costs |-> 40, community_score |-> 1250,
      nfts |-> <<[token_id |-> <<"nft-", "user", "-", "rene", "-", "earlier">>]>>],
     [auto_trading |-> [min_sell_price_kwh |-> 250, token_rewards |-> TRUE],
      nfts |-> <<[token_id |-> <<"nft-", "user", "-", "rene", "-", "earlier">>]>>]}

InitTrade == InitWith({[responses |-> <<>>]})
TradeLoadState == LoadState(TradeStateData)
\* an operation called with the arguments `given`
DoesFor(name, given, did) ==
    /\ called \in {"none", "load_state"}
    /\ called' = name
    /\ args' = given
    /\ state' = did.state
    /\ posts' = did.posts
    /\ network' = did.reply
    /\ result' = did.result
    /\ caught' = did.caught
    /\ uuids' = uuids + 2 * Len(did.posts)
    /\ UNCHANGED <<response_data, environ, store_vars, solo>>

ExecuteGridSale ==
    \E user_id \in UserIds, amount_kwh \in AmountsKwh, ids \in IdPairs,
       search_reply \in TradeReplies, reply \in TradeReplies, tie \in {0, 1} :
        DoesFor("execute_grid_sale", [user_id |-> user_id, amount_kwh |-> amount_kwh],
                execute_grid_sale(state, user_id, amount_kwh, ids, search_reply, reply, Now, tie))
ExecuteGridPurchase ==
    \E user_id \in UserIds, amount_kwh \in AmountsKwh, ids \in IdPairs,
       search_reply \in TradeReplies, reply \in TradeReplies, tie \in {0, 1} :
        DoesFor("execute_grid_purchase", [user_id |-> user_id, amount_kwh |-> amount_kwh],
                execute_grid_purchase(state, user_id, amount_kwh, ids, search_reply, reply, Now, tie))
ExecuteP2pSharing ==
    \E user_id \in UserIds, amount_kwh \in AmountsKwh, ids \in IdPairs,
       search_reply \in TradeReplies, reply \in TradeReplies, tie \in {0, 1},
       draw \in {"1000", "9999"} :
        DoesFor("execute_p2p_sharing", [user_id |-> user_id, amount_kwh |-> amount_kwh],
                execute_p2p_sharing(state, user_id, amount_kwh, ids, search_reply, reply, Now,
                                    tie, draw))

NextTrade ==
    \/ TradeLoadState
    \/ ExecuteGridSale
    \/ ExecuteGridPurchase
    \/ ExecuteP2pSharing
SpecTrade == InitTrade /\ [][NextTrade]_vars

----------------------------------------------------------------------------
(* The operations of the session store: one call on a store file, at some time *)

MaxClock == 4
\* the user ids of the calls: 7 and 12 as int and as str, and "07"
UserIdArgs == {[int |-> 7], [str |-> <<"7">>], [int |-> 12], [str |-> <<"1", "2">>],
               [str |-> <<"0", "7">>]}
\* the data of an update
SessionData ==
    {EmptyDict,
     [step |-> "address"],
     [step |-> "roof", language |-> "en"],
     [last_updated |-> [text |-> "never"]]}
\* the sessions a file holds: without a stamp, with one that is no timestamp, and
\* stamped at each instant
StoredSessions ==
    {[agent_type |-> "prosumer", step |-> "menu"],
     [agent_type |-> "prosumer", step |-> "menu", last_updated |-> [text |-> "yesterday"]]}
    \cup {[agent_type |-> "prosumer", step |-> "menu", last_updated |-> [iso |-> t]] :
            t \in 0..MaxClock}
StoreFiles ==
    {NoFile, StoredFile(EmptyDict)}
    \cup {StoredFile(<<"7">> :> a) : a \in StoredSessions}
    \cup {StoredFile(<<"7">> :> a @@ <<"1", "2">> :> b) : a, b \in StoredSessions}
DaysArgs == {0, 1, 2}

InitSessions ==
    /\ response_data = [responses |-> <<>>]
    /\ called = "none"
    /\ result = Returned(<<>>)
    /\ posts = NoPosts
    /\ network = NoReply
    /\ state = NoUsers
    /\ uuids = 0
    /\ environ = NoEnviron
    /\ args = NoArgs
    /\ session_file \in StoreFiles
    /\ writers = NoWriters
    /\ clock \in 0..MaxClock
    /\ caught = NoError
    /\ solo = NoSolo

\* one call of the store: the file it leaves and the value it returns
Stores(name, given, r) ==
    /\ called = "none"
    /\ called' = name
    /\ args' = given
    /\ session_file' = r.file
    /\ result' = Returned(r.value)
    /\ UNCHANGED <<response_data, posts, network, state, uuids, environ, writers, clock, caught, solo>>

GetUserSession ==
    \E user_id \in UserIdArgs :
        Stores("get_user_session", [user_id |-> user_id], get_user_session(session_file, user_id))
UpdateUserSession ==
    \E user_id \in UserIdArgs, data \in SessionData :
        Stores("update_user_session", [user_id |-> user_id, data |-> data],
               update_user_session(session_file, user_id, data, clock))
DeleteUserSession ==
    \E user_id \in UserIdArgs :
        Stores("delete_user_session", [user_id |-> user_id],
               delete_user_session(session_file, user_id))
GetAllSessions ==
    Stores("get_all_sessions", NoArgs, get_all_sessions(session_file))
ClearOldSessions ==
    \E days \in DaysArgs :
        Stores("clear_old_sessions", [days |-> days],
               clear_old_sessions(session_file, days, clock))

NextSessions ==
    \/ GetUserSession
    \/ UpdateUserSession
    \/ DeleteUserSession
    \/ GetAllSessions
    \/ ClearOldSessions
SpecSessions == InitSessions /\ [][NextSessions]_vars

\* the store under faults: the file holds sessions, and reading it, writing it, or
\* both may fail at the time of the call
FaultyFiles ==
    {[file EXCEPT !.decodable = readable, !.writable = writable] :
        file \in StoreFiles \ {NoFile}, readable \in BOOLEAN, writable \in BOOLEAN}
InitFaulty ==
    /\ response_data = [responses |-> <<>>]
    /\ called = "none"
    /\ result = Returned(<<>>)
    /\ posts = NoPosts
    /\ network = NoReply
    /\ state = NoUsers
    /\ uuids = 0
    /\ environ = NoEnviron
    /\ args = NoArgs
    /\ session_file \in FaultyFiles
    /\ writers = NoWriters
    /\ clock \in 0..MaxClock
    /\ caught = NoError
    /\ solo = NoSolo
SpecFaulty == InitFaulty /\ [][NextSessions]_vars

----------------------------------------------------------------------------
(* Two callers of update_user_session at once: a call reads the file when it loads and  *)
(* writes it when it saves, and nothing keeps another call from running in between      *)

Writers == {"w1", "w2"}
\* the update of each caller, under a key no stored session has
WriterData == [w1 |-> [language |-> "en"], w2 |-> [roof_type |-> "flat"]]
WriterUsers == {[int |-> 7], [str |-> <<"7">>], [str |-> <<"1", "2">>]}
WriterFiles ==
    {NoFile, StoredFile(EmptyDict),
     StoredFile(<<"7">> :> [agent_type |-> "prosumer", step |-> "menu", last_updated |-> [iso |-> 0]]
                @@ <<"1", "2">> :> [agent_type |-> "solar", step |-> "menu"])}
\* the number of saves made so far
SavesMade == Cardinality({w \in DOMAIN writers : writers[w].pc = "saved"})

InitWriters ==
    /\ response_data = [responses |-> <<>>]
    /\ called = "none"
    /\ result = Returned(<<>>)
    /\ posts = NoPosts
    /\ network = NoReply
    /\ state = NoUsers
    /\ uuids = 0
    /\ environ = NoEnviron
    /\ args = NoArgs
    /\ session_file \in WriterFiles
    /\ writers = NoWriters
    /\ clock = 1
    /\ caught = NoError
    /\ solo = NoSolo

\* sessions = _load_sessions(): the call of `w` begins and reads the file
WriterLoads(w) ==
    /\ w \notin DOMAIN writers
    /\ \E user_id \in WriterUsers :
        LET loaded == _load_sessions(session_file)
        IN /\ writers' = [v \in (DOMAIN writers) \cup {w} |->
                            IF v = w
                            THEN [pc |-> "loaded", user_id |-> user_id, data |-> WriterData[w],
                                  sessions |-> loaded.sessions, loaded_after |-> SavesMade,
                                  saved_as |-> 0]
                            ELSE writers[v]]
           /\ session_file' = loaded.file
    /\ called' = "update_user_session"
    /\ UNCHANGED <<response_data, result, posts, network, state, uuids, identity_vars, clock, caught, solo>>

\* return _save_sessions(sessions): the call of `w` writes the file and ends
WriterSaves(w) ==
    /\ w \in DOMAIN writers
    /\ writers[w].pc = "loaded"
    /\ LET saved == Saved(session_file, writers[w], clock)
       IN /\ session_file' = saved.file
          /\ result' = Returned(saved.value)
    /\ writers' = [writers EXCEPT ![w].pc = "saved", ![w].saved_as = SavesMade + 1]
    /\ called' = "update_user_session"
    /\ UNCHANGED <<response_data, posts, network, state, uuids, identity_vars, clock, caught, solo>>

NextWriters == \E w \in Writers : WriterLoads(w) \/ WriterSaves(w)
SpecWriters == InitWriters /\ [][NextWriters]_vars

----------------------------------------------------------------------------
(* Whole agent operations for two users, in every order.  One agent, the solar *)
(* onboarding agent or the prosumer energy agent, receives up to MaxOps        *)
(* operations; each runs from its first statement to its return before the     *)
(* next begins, which is what one operation in flight at a time gives.  Beside *)
(* it, solo.states[u] is the state map of an agent of the same class that is   *)
(* given the operations of user u only, with the same arguments, the same      *)
(* replies of the network and the same clock, in the same order.  The state    *)
(* objects handed to load_state are objects of their own, one per call.        *)

MaxOps == 3
Agents == {"solar", "prosumer"}
\* the states loaded by the front-end for the agent of each class
LoadedStateData ==
    IF solo.agent = "solar"
    THEN {EmptyDict, [electricity_consumption |-> 500, electricity_rate |-> 8]}
    ELSE {EmptyDict,
          [auto_trading |-> [min_sell_price_kwh |-> 200, max_buy_price_kwh |-> 90, token_rewards |-> TRUE],
           transactions |-> <<[status |-> "completed", transaction_type |-> "grid_sale",
                               total_amount_usd |-> 90]>>,
           total_earnings |-> 90]}
\* the network fails, or answers with the body `body`
Answered(body) == [failure |-> NoError, status_code |-> 200, decodable |-> TRUE, body |-> body]
Answers(body) ==
    {[failure |-> "ConnectionError", status_code |-> 200, decodable |-> FALSE, body |-> EmptyDict],
     Answered(body)}
OpportunityBody ==
    [responses |-> <<Catalog(<<[id |-> "prov-1", descriptor |-> [name |-> "SunPower Co"],
                                items |-> <<ItemA2>>]>>)>>]
OrderBody == [responses |-> <<OrderResponse([id |-> "order-1"])>>]

InitAgents ==
    /\ response_data = [responses |-> <<>>]
    /\ called = "none"
    /\ result = Returned(<<>>)
    /\ posts = NoPosts
    /\ network = NoReply
    /\ state = NoUsers
    /\ uuids = 0
    /\ environ = NoEnviron
    /\ args = NoArgs
    /\ session_file = NoFile
    /\ writers = NoWriters
    /\ clock = 0
    /\ caught = NoError
    /\ \E agent \in Agents :
        solo = [agent |-> agent, issued |-> <<>>, states |-> [u \in UserIds |-> NoUsers]]

\* the two agents an operation for `user_id` runs on: the agent that serves every user,
\* and the agent that serves this user only
Served(user_id) == {state, solo.states[user_id]}
\* the operation `name` runs for `user_id` from start to return: `ran[agent_state]` is
\* what it does to an agent whose state map is agent_state
Issued(name, user_id, ran) ==
    /\ Len(solo.issued) < MaxOps
    /\ \E done \in {ran[state]}, done_alone \in {ran[solo.states[user_id]]} :
        /\ called' = name
        /\ args' = [user_id |-> user_id]
        /\ state' = done.state
        /\ posts' = done.posts
        /\ network' = done.reply
        /\ result' = done.result
        /\ caught' = done.caught
        /\ uuids' = uuids + 2 * Len(done.posts)
        /\ solo' = [solo EXCEPT !.issued = Append(@, user_id),
                                !.states[user_id] = done_alone.state]
    /\ UNCHANGED <<response_data, environ, store_vars>>

AgentLoadState ==
    \E user_id \in UserIds, state_data \in LoadedStateData :
        Issued("load_state", user_id,
               [agent_state \in Served(user_id) |->
                   Did(load_state(agent_state, user_id, state_data), NoCall, NoReply,
                       Returned(NoneData))])
AgentSearchSolarProducts ==
    /\ solo.agent = "solar"
    /\ \E user_id \in UserIds, ids \in IdPairs,
          reply \in Answers([responses |-> <<Catalog(<<ProviderA>>)>>]) :
        Issued("search_solar_products", user_id,
               [agent_state \in Served(user_id) |->
                   search_solar_products(agent_state, user_id, ids, reply)])
AgentEstimateRoi ==
    /\ solo.agent = "solar"
    /\ \E user_id \in UserIds :
        Issued("estimate_roi", user_id,
               [agent_state \in Served(user_id) |-> estimate_roi(agent_state, user_id)])
AgentEnableAutoTrading ==
    /\ solo.agent = "prosumer"
    /\ \E user_id \in UserIds,
          settings \in {EmptyDict, [ai_optimization_target |-> "environmental"]} :
        Issued("enable_auto_trading", user_id,
               [agent_state \in Served(user_id) |->
                   enable_auto_trading(agent_state, user_id, settings, Now)])
AgentExecuteGridSale ==
    /\ solo.agent = "prosumer"
    /\ \E user_id \in UserIds, ids \in IdPairs, search_reply \in Answers(OpportunityBody),
          reply \in {Answered(OrderBody)} :
        Issued("execute_grid_sale", user_id,
               [agent_state \in Served(user_id) |->
                   execute_grid_sale(agent_state, user_id, 500, ids, search_reply, reply, Now, 0)])
AgentExecuteP2pSharing ==
    /\ solo.agent = "prosumer"
    /\ \E user_id \in UserIds, ids \in IdPairs, search_reply \in {Answered(OpportunityBody)},
          reply \in Answers(OrderBody) :
        Issued("execute_p2p_sharing", user_id,
               [agent_state \in Served(user_id) |->
                   execute_p2p_sharing(agent_state, user_id, 1250, ids, search_reply, reply,
                                       Now, 0, "1000")])

NextAgents ==
    \/ AgentLoadState
    \/ AgentSearchSolarProducts
    \/ AgentEstimateRoi
    \/ AgentEnableAutoTrading
    \/ AgentExecuteGridSale
    \/ AgentExecuteP2pSharing
SpecAgents == InitAgents /\ [][NextAgents]_vars

----------------------------------------------------------------------------
(* Automatic trading: a state is loaded for a user, then execute_auto_trading runs  *)
(* once, with or without the assistant.                                             *)

\* the states loaded before: none, trading switched off, the default settings with a
\* 12 kW system, and settings that sell, buy and share nothing with a 12 kW system
AutoStateData ==
    {EmptyDict,
     [auto_trading |-> [auto_participation |-> FALSE, token_rewards |-> TRUE]],
     [auto_trading |-> default_settings],
     [auto_trading |-> default_settings, system_size_kw |-> 120,
      trading_history |-> <<[action |-> "no_action"]>>],
     [auto_trading |-> [auto_participation |-> TRUE, peak_time_selling |-> FALSE,
                        off_peak_buying |-> FALSE, neighbor_sharing_enabled |-> FALSE],
      system_size_kw |-> 120]}
\* what the chain answers: it raises, or returns one of these texts
AiOutcomes ==
    {Raised("Exception"),
     Returned(<<"1",".">>),
     Returned(<<"2"," ","S","t","o","r","e">>),
     Returned(<<"3">>),
     Returned(<<"4",","," ","n","o","t"," ","1">>),
     Returned(<<"A","c","t","i","o","n"," ","4">>),
     Returned(<<"I"," ","s","u","g","g","e","s","t"," ","4">>)}
Hours == {3, 14}
Randoms == {[k \in 1..9 |-> 0], [k \in 1..9 |-> 1]}
AutoReplies ==
    {[failure |-> "ConnectionError", status_code |-> 200, decodable |-> FALSE, body |-> EmptyDict],
     [failure |-> NoError, status_code |-> 200, decodable |-> TRUE,
      body |-> [responses |-> <<OrderResponse([id |-> "order-1"])>>]]}

InitAuto ==
    /\ response_data = [responses |-> <<>>]
    /\ called = "none"
    /\ result = Returned(<<>>)
    /\ posts = NoPosts
    /\ network = NoReply
    /\ state = NoUsers
    /\ uuids = 0
    /\ environ \in {NoEnviron, [VERTEX_PROJECT_ID |-> "project-1"]}
    /\ args = NoArgs
    /\ session_file = NoFile
    /\ writers = NoWriters
    /\ clock = 0
    /\ caught = NoError
    /\ solo = NoSolo

AutoLoadState == LoadState(AutoStateData)
ExecuteAutoTrading ==
    \E user_id \in UserIds, raised \in {NoError, "ImportError"}, ai_outcome \in AiOutcomes,
       current_hour \in Hours, random \in Randoms, ids \in IdPairs,
       search_reply \in AutoReplies, reply \in AutoReplies :
        DoesFor("execute_auto_trading",
                [user_id |-> user_id, ai_available |-> ai_available(environ, raised),
                 ai_outcome |-> ai_outcome, current_hour |-> current_hour],
                execute_auto_trading(state, user_id, ai_available(environ, raised), ai_outcome,
                                     current_hour, <<2025, 3, 2>>, random, 0, ids, search_reply,
                                     reply, Now, "1000"))

NextAuto ==
    \/ AutoLoadState
    \/ ExecuteAutoTrading
SpecAuto == InitAuto /\ [][NextAuto]_vars

(* The ledger: one prosumer agent, constructed with an empty state map, receives up *)
(* to MaxOps operations for two users, each run from start to return before the    *)
(* next; load_state is never called.  solo.issued lists the operations received.   *)

\* the replies to the search that precedes a trade: a catalog with one offer, and a
\* catalog whose price the extractor cannot read
LedgerSearchReplies ==
    {Answered(OpportunityBody),
     Answered([responses |-> <<Catalog(<<[id |-> "prov-1",
                  items |-> <<[id |-> "item-1", price |-> [value |-> Price020Suffixed]]>>]>>)>>])}
InitLedger == InitWith({[responses |-> <<>>]})
\* the operation `name` runs with the arguments `given`
Entered(name, given, did) ==
    /\ Len(solo.issued) < MaxOps
    /\ called' = name
    /\ args' = given
    /\ state' = did.state
    /\ posts' = did.posts
    /\ network' = did.reply
    /\ result' = did.result
    /\ caught' = did.caught
    /\ uuids' = uuids + 2 * Len(did.posts)
    /\ solo' = [solo EXCEPT !.issued = Append(@, name)]
    /\ UNCHANGED <<response_data, environ, store_vars>>
LedgerEnableAutoTrading ==
    \E user_id \in UserIds :
        Entered("enable_auto_trading", [user_id |-> user_id],
                enable_auto_trading(state, user_id, [min_sell_price_kwh |-> 200], Now))
LedgerGridSale ==
    \E user_id \in UserIds, ids \in IdPairs, search_reply \in LedgerSearchReplies,
       reply \in Answers(OrderBody) :
        Entered("execute_grid_sale", [user_id |-> user_id, amount_kwh |-> 500],
                execute_grid_sale(state, user_id, 500, ids, search_reply, reply, Now, 0))
LedgerGridPurchase ==
    \E user_id \in UserIds, ids \in IdPairs, search_reply \in LedgerSearchReplies :
        Entered("execute_grid_purchase", [user_id |-> user_id, amount_kwh |-> 1250],
                execute_grid_purchase(state, user_id, 1250, ids, search_reply,
                                      Answered(OrderBody), Now, 0))
LedgerP2pSharing ==
    \E user_id \in UserIds, amount_kwh \in AmountsKwh, ids \in IdPairs,
       search_reply \in LedgerSearchReplies :
        Entered("execute_p2p_sharing", [user_id |-> user_id, amount_kwh |-> amount_kwh],
                execute_p2p_sharing(state, user_id, amount_kwh, ids, search_reply,
                                    Answered(OrderBody), Now, 0, "1000"))
NextLedger ==
    \/ LedgerEnableAutoTrading
    \/ LedgerGridSale
    \/ LedgerGridPurchase
    \/ LedgerP2pSharing
SpecLedger == InitLedger /\ [][NextLedger]_vars

NextSolar ==
    \/ SolarLoadState
    \/ SearchSubsidies
    \/ EstimateRoi
SpecSolar == InitSolar /\ [][NextSolar]_vars

NextProsumer ==
    \/ ProsumerLoadState
    \/ GetEnergyProduction
    \/ EnableAutoTrading
SpecProsumer == InitProsumer /\ [][NextProsumer]_vars

----------------------------------------------------------------------------
(* Claims about the extractors *)

CatalogExtractors ==
    {"extract_subsidies_from_response", "extract_installers_from_response",
     "extract_energy_programs_from_response", "extract_energy_trading_opportunities"}

\* a response that offers no provider: no message, no catalog, no providers or none in it
OffersNothing(r) ==
    \/ ~Has(r, "message")
    \/ ~Has(r.message, "catalog")
    \/ ~Has(r.message.catalog, "providers")
    \/ r.message.catalog.providers = <<>>
MalformedInput(data) ==
    \/ data = NoneData
    \/ ~Has(data, "responses")
    \/ \A i \in DOMAIN data.responses : OffersNothing(data.responses[i])

\* C1: each of the four catalog extractors of beckn/utils.py returns an empty list and does
\* not raise when the input is None, lacks `responses`, or every response lacks `message`,
\* lacks `catalog` or has no providers.
C1_MalformedYieldsEmpty ==
    (called \in CatalogExtractors /\ MalformedInput(response_data)) => result = Returned(<<>>)

\* C1 witness: an extractor has run on two responses, one without message and one with an
\* empty providers list.
C1_Witness ==
    /\ called = "extract_installers_from_response"
    /\ response_data = [responses |-> <<[context |-> "ctx"], Catalog(<<>>)>>]
    /\ result = Returned(<<>>)

\* C2: on a catalog response whose provider and item omit any subset of their optional
\* keys, every extractor of beckn/utils.py returns its records without raising (also
\* extract_subsidies_from_response on a provider with an item and no fulfillments).
C2_MissingKeysNeverRaise ==
    (called \in CatalogExtractors /\ response_data \in OptionalKeyFixtures)
        => result.raised = NoError

\* the providers a catalog response offers, and the (provider id, item id) pairs of their
\* items, in array order
RECURSIVE Flatten(_)
Flatten(seqs) == IF seqs = <<>> THEN <<>> ELSE Head(seqs) \o Flatten(Tail(seqs))
OfferedProviders(data) ==
    Flatten([i \in DOMAIN data.responses |->
        IF OffersNothing(data.responses[i]) THEN <<>>
        ELSE data.responses[i].message.catalog.providers])
ItemsOf(provider) == IF Has(provider, "items") THEN provider.items ELSE <<>>
OfferedPairs(data) ==
    Flatten([i \in DOMAIN OfferedProviders(data) |->
        LET p == OfferedProviders(data)[i]
        IN [k \in DOMAIN ItemsOf(p) |-> <<p.id, ItemsOf(p)[k].id>>]])
PlainPrices == {Price018, Price2999, NumVal(18)}
WellFormedItem(item) ==
    /\ Has(item, "price") => item.price.value \in PlainPrices
    /\ (Has(item, "descriptor") /\ Has(item.descriptor, "images")) => item.descriptor.images /= <<>>
WellFormedProvider(p) ==
    /\ Has(p, "fulfillments") /\ p.fulfillments /= <<>>
    /\ \A k \in DOMAIN ItemsOf(p) : WellFormedItem(ItemsOf(p)[k])
WellFormed(data) ==
    /\ data /= NoneData
    /\ Has(data, "responses")
    /\ \A i \in DOMAIN OfferedProviders(data) : WellFormedProvider(OfferedProviders(data)[i])
ItemExtractors ==
    {"extract_subsidies_from_response", "extract_energy_programs_from_response",
     "extract_energy_trading_opportunities", "api_client.extract_energy_trading_opportunities",
     "search_solar_products"}
PairsOf(records) == [i \in DOMAIN records |-> <<records[i].provider_id, records[i].id>>]

\* C5: on a catalog of well-formed providers the subsidy, program, trading-opportunity and
\* product extractions return one record per item, in the order responses, providers, items,
\* and the installer extraction returns one record per provider, in order, whose services
\* are the provider's items in item order.
C5_TraversalOrder ==
    /\ (called \in ItemExtractors /\ WellFormed(response_data))
        => /\ result.raised = NoError
           /\ PairsOf(result.value) = OfferedPairs(response_data)
    /\ (called = "extract_installers_from_response" /\ WellFormed(response_data))
        => /\ result.raised = NoError
           /\ Len(result.value) = Len(OfferedProviders(response_data))
           /\ \A i \in DOMAIN result.value :
                LET p == OfferedProviders(response_data)[i]
                IN /\ result.value[i].id = p.id
                   /\ [k \in DOMAIN result.value[i].services |-> result.value[i].services[k].id]
                        = [k \in DOMAIN ItemsOf(p) |-> ItemsOf(p)[k].id]

\* C5 witness: two responses with two providers each, in opposite orders, extracted into
\* six records in array order.
C5_Witness ==
    /\ called = "extract_subsidies_from_response"
    /\ response_data = [responses |-> <<Catalog(<<ProviderA, ProviderB>>), Catalog(<<ProviderB, ProviderA>>)>>]
    /\ PairsOf(result.value) =
        << <<"prov-1", "item-1">>, <<"prov-1", "item-2">>, <<"prov-2", "item-3">>,
           <<"prov-2", "item-3">>, <<"prov-1", "item-1">>, <<"prov-1", "item-2">> >>

\* the key the claims give a descriptor: its description, else its code
KeyOf(descriptor) ==
    IF StrTruthy(Get(descriptor, "description", "")) THEN descriptor.description
    ELSE Get(descriptor, "code", "")
EntryKey(entry) == KeyOf(Get(entry, "descriptor", EmptyDict))
Recordable(entry) == StrTruthy(EntryKey(entry)) /\ StrTruthy(Get(entry, "value", None))
LastWith(list, key) == list[CHOOSE i \in DOMAIN list :
    /\ EntryKey(list[i]) = key
    /\ \A j \in DOMAIN list : EntryKey(list[j]) = key => j <= i]

TagExtractors == CatalogExtractors
OpportunityExtractors ==
    {"extract_energy_trading_opportunities", "api_client.extract_energy_trading_opportunities"}
\* the tags of the fixture's item, and the tags mapping the extractor made of them
GivenTags == response_data.responses[1].message.catalog.providers[1].items[1].tags
ExtractedTags ==
    IF called = "extract_installers_from_response"
    THEN result.value[1].services[1].tags
    ELSE result.value[1].tags
\* N groups with pairwise distinct descriptions, every list entry with a key and a value
DistinctGroups(tags) ==
    /\ \A i \in DOMAIN tags : StrTruthy(TagDesc(tags[i]))
    /\ \A i, j \in DOMAIN tags : TagDesc(tags[i]) = TagDesc(tags[j]) => i = j
    /\ \A i \in DOMAIN tags : \A k \in DOMAIN tags[i].list : Recordable(tags[i].list[k])
GroupsAsClaimed(tags, mapping) ==
    /\ Cardinality(DOMAIN mapping) = Len(tags)
    /\ \A i \in DOMAIN tags :
        LET values == mapping[TagDesc(tags[i])]
            list == tags[i].list
        IN /\ Cardinality(DOMAIN values) <= Len(list)
           /\ DOMAIN values = {EntryKey(list[k]) : k \in DOMAIN list}
           /\ \A key \in DOMAIN values : values[key] = LastWith(list, key).value

C7_GroupKeyFallsBackToCode ==
    called \in (TagExtractors \cup OpportunityExtractors) =>
        \A i \in DOMAIN GivenTags :
            LET group == KeyOf(Get(GivenTags[i], "descriptor", EmptyDict))
                list == GivenTags[i].list
            IN (StrTruthy(group) /\ \E k \in DOMAIN list : Recordable(list[k]))
                => /\ group \in DOMAIN ExtractedTags
                   /\ \A k \in DOMAIN list :
                        Recordable(list[k]) => EntryKey(list[k]) \in DOMAIN ExtractedTags[group]

\* the price and the type the protocol's examples give for a price value and a display name
ExpectedPrice(item) ==
    IF ~Has(item, "price") THEN 0
    ELSE CASE item.price.value = Price018 -> 18
           [] item.price.value = Price020Suffixed -> 20
           [] item.price.value = Price2999 -> 299900
           [] item.price.value = NumVal(18) -> 18
           [] item.price.value = PriceGarbage -> 0
ExpectedType(name) ==
    CASE name = PeakHourSelling -> "sell_excess"
      [] name = SellOrBuy -> "sell_excess"
      [] name = OffPeakBuy -> "buy_energy"
      [] name = CommunityShare -> "p2p_sharing"
      [] name = SolarKit -> "p2p_sharing"
GivenItems == ItemsOf(response_data.responses[1].message.catalog.providers[1])

\* C8: both definitions of extract_energy_trading_opportunities convert a price with the
\* USD/kWH suffix to its numeric prefix, a plain numeric string or a number to that number
\* and anything else to 0.0, never raising and returning the records of all items.
C8_PriceFallbackChain ==
    (called \in OpportunityExtractors /\ response_data \in PriceFixtures)
        => /\ result.raised = NoError
           /\ Len(result.value) = Len(GivenItems)
           /\ \A k \in DOMAIN result.value :
                result.value[k].price_per_kwh = ExpectedPrice(GivenItems[k])

\* C9: for an item without an explicit type code both definitions of
\* extract_energy_trading_opportunities set the type by case-insensitive match on the
\* display name: "sell" gives sell_excess, else "buy" gives buy_energy, else p2p_sharing.
C9_TypeByDisplayName ==
    (called \in OpportunityExtractors /\ response_data \in PriceFixtures /\ result.raised = NoError)
        => \A k \in DOMAIN result.value :
             (Has(GivenItems[k], "descriptor") /\ ~Has(GivenItems[k].descriptor, "code"))
                => result.value[k].type = ExpectedType(GivenItems[k].descriptor.name)

\* the index of the first entry of `responses` that holds message.order, 0 if none does
HoldsOrder(r) == Has(r, "message") /\ Has(r.message, "order")
FirstOrderAt(responses) ==
    IF \E i \in DOMAIN responses : HoldsOrder(responses[i])
    THEN CHOOSE i \in DOMAIN responses :
            HoldsOrder(responses[i]) /\ \A j \in 1..(i - 1) : ~HoldsOrder(responses[j])
    ELSE 0

\* C10: extract_order_details returns the message.order of the first entry of `responses`
\* that holds one, and an empty mapping when the input is None, lacks `responses` or no
\* entry holds an order; later orders never change the result.
C10_FirstOrder ==
    called = "extract_order_details" =>
        /\ result.raised = NoError
        /\ result.value =
            IF response_data = NoneData \/ ~Has(response_data, "responses") THEN EmptyDict
            ELSE IF FirstOrderAt(response_data.responses) = 0 THEN EmptyDict
            ELSE response_data.responses[FirstOrderAt(response_data.responses)].message.order

\* C10 witness: two entries that hold different orders; the first one is returned.
C10_Witness ==
    /\ called = "extract_order_details"
    /\ response_data = [responses |-> <<OrderResponse([id |-> "order-2"]), OrderResponse([id |-> "order-1"])>>]
    /\ result.value = [id |-> "order-2"]

\* the protocol methods of the client and the endpoint each of them posts to
EndpointOf ==
    [m \in {"beckn_client.search_subsidies", "beckn_client.search_energy_programs",
            "beckn_client.search_solar_products", "beckn_client.search_solar_services",
            "beckn_client.search_energy_trading_opportunities",
            "beckn_client.search_demand_response_programs"} |-> "search"]
    @@ [m \in {"beckn_client.select_item"} |-> "select"]
    @@ [m \in {"beckn_client.init_order", "beckn_client.execute_energy_trade",
               "beckn_client.create_energy_nft"} |-> "init"]
    @@ [m \in {"beckn_client.confirm_order"} |-> "confirm"]
    @@ [m \in {"beckn_client.check_status"} |-> "status"]
IsErrorMapping(v) == DOMAIN v = {"error"}
\* a transport failure, a status that is not 2xx or a body that is not JSON
FailedReply(reply) ==
    reply.failure /= NoError \/ ~(reply.status_code \in 200..299) \/ ~reply.decodable

ContextOf(i) == posts[i].json.context
IdentifiersOf(i) == {ContextOf(i).transaction_id, ContextOf(i).message_id}
C11_FreshIdentifiers ==
    \A i, j \in 1..Len(posts) :
        /\ ContextOf(i).transaction_id /= ContextOf(i).message_id
        /\ i /= j => IdentifiersOf(i) \cap IdentifiersOf(j) = {}
\* the flow of one order has run: select, init, confirm, status, each call under a
\* transaction_id of its own
C11_Witness ==
    /\ Len(posts) = 4
    /\ [i \in 1..4 |-> ContextOf(i).action] = <<"select", "init", "confirm", "status">>
    /\ Cardinality({ContextOf(i).transaction_id : i \in 1..4}) = 4

\* C12: each network identity field of a built context is the explicit argument when a
\* non-empty one was passed, otherwise the configuration variable when it is set,
\* otherwise the built-in default, for create_beckn_context and for a client's contexts
DefaultIdentity == [bap_id |-> DefaultBapId, bap_uri |-> DefaultBapUri,
                    bpp_id |-> DefaultBppId, bpp_uri |-> DefaultBppUri]
Configured(f) ==
    IF EnvironName[f] \in DOMAIN environ THEN environ[EnvironName[f]] ELSE DefaultIdentity[f]
ContextBuilt == called \in {"create_beckn_context", "BecknAPIClient._create_context"}
StoredUnder ==
    [search_subsidies |-> "subsidies", search_installers |-> "installers",
     search_solar_products |-> "products", search_energy_programs |-> "programs",
     enroll_in_program |-> "enrollment", select_service |-> "selection",
     initialize_order |-> "order_init", confirm_order |-> "order_confirmation",
     check_order_status |-> "order_status"]
\* u's state after the step is its state before with `value` under `key`
StoredFor(u, key, value) ==
    /\ u \in DOMAIN state'
    /\ DOMAIN state'[u] = DOMAIN get_state(state, u) \cup {key}
    /\ state'[u][key] = value
    /\ \A k \in DOMAIN state'[u] \ {key} : state'[u][k] = state[u][k]
C13_StoresUnderFixedKey ==
    [][(called' \in DOMAIN StoredUnder /\ called' /= called /\ caught' = NoError) =>
        /\ \E u \in UserIds : StoredFor(u, StoredUnder[called'], result'.value)
        /\ (called' = "search_solar_products" /\ response_data = OneProviderOneItem
                /\ ~FailedReply(network')) =>
            /\ Len(result'.value) = 1
            /\ result'.value[1].provider_name = "SunPower Co"
            /\ result'.value[1].price = Price2999]_vars
\* search_solar_products has stored its single product for a user whose state held
\* other keys and an earlier product list
C13_Witness ==
    /\ called = "search_solar_products" /\ caught = NoError
    /\ response_data = OneProviderOneItem
    /\ \E u \in UserIds :
        /\ u \in DOMAIN state
        /\ {"address", "products", "subsidies"} \subseteq DOMAIN state[u]
        /\ state[u].address = "12 Main St"
        /\ state[u].subsidies = <<[id |-> "stale"]>>
        /\ state[u].products = result.value
        /\ Len(state[u].products) = 1
        /\ state[u].products[1].id = "item-1"

\* C14: the price of a completed trade is the larger of 0.18 and the stored
\* min_sell_price_kwh for a grid sale, the smaller of 0.10 and the stored
\* max_buy_price_kwh for a grid purchase, the larger of 0.15 and nine tenths of the
\* stored min_sell_price_kwh for a p2p share (0.12 and 0.08 when nothing is stored), and
\* its total is the amount times that price, to the nearest cent
TradeOperations == {"execute_grid_sale", "execute_grid_purchase", "execute_p2p_sharing"}
Completed == called \in TradeOperations /\ result.value.status = "completed"
StoredSettings == Get(get_state(state, args.user_id), "auto_trading", EmptyDict)
MinSell ==
    IF "min_sell_price_kwh" \in DOMAIN StoredSettings THEN StoredSettings.min_sell_price_kwh
    ELSE 120
MaxBuy ==
    IF "max_buy_price_kwh" \in DOMAIN StoredSettings THEN StoredSettings.max_buy_price_kwh
    ELSE 80
\* ten times the price claimed, in thousandths of a dollar
TenPricesClaimed ==
    [execute_grid_sale |-> IF MinSell > 180 THEN 10 * MinSell ELSE 1800,
     execute_grid_purchase |-> IF MaxBuy < 100 THEN 10 * MaxBuy ELSE 1000,
     execute_p2p_sharing |-> IF 9 * MinSell > 1500 THEN 9 * MinSell ELSE 1500]
C14_TradePrices ==
    Completed =>
        LET trade == result.value
            exact == trade.amount_kwh * trade.price_per_kwh
        IN /\ trade.amount_kwh = args.amount_kwh
           /\ 10 * trade.price_per_kwh = TenPricesClaimed[called]
           \* within half a cent of the exact product, counted in 1/1000 of a cent
           /\ 2 * (1000 * trade.total_amount_usd - exact) \in -1000..1000
           /\ (called = "execute_grid_sale" /\ MinSell = 120 /\ trade.amount_kwh = 500) =>
                (trade.price_per_kwh = 180 /\ trade.total_amount_usd = 90)
           /\ (called = "execute_grid_purchase" /\ MaxBuy = 90) => trade.price_per_kwh = 90
\* a sale of 5.0 kWh by a user whose stored settings name no selling price, and who
\* had earlier trades: 0.18 a kWh, 0.90 in all
C14_Witness ==
    /\ Completed /\ called = "execute_grid_sale"
    /\ args.user_id \in DOMAIN state
    /\ "auto_trading" \in DOMAIN state[args.user_id]
    /\ "min_sell_price_kwh" \notin DOMAIN state[args.user_id].auto_trading
    /\ result.value.amount_kwh = 500
    /\ result.value.price_per_kwh = 180
    /\ result.value.total_amount_usd = 90

\* C15: every trade that returns status "completed" leaves the user's `transactions` as
\* they were with that result appended, and the user's total_costs (purchase) or
\* total_earnings (sale, p2p share) raised by its total_amount_usd, whether or not the
\* user had a state entry and whatever the network replied
TradeStep == called' \in TradeOperations /\ called' /= called
TotalOf == [execute_grid_sale |-> "total_earnings", execute_grid_purchase |-> "total_costs",
            execute_p2p_sharing |-> "total_earnings"]
C15_CompletedTradesRecorded ==
    [][(TradeStep /\ result'.value.status = "completed") =>
        LET u == args'.user_id
            before == get_state(state, u)
            total == TotalOf[called']
        IN /\ u \in DOMAIN state'
           /\ {"transactions", total} \subseteq DOMAIN state'[u]
           /\ state'[u].transactions = Append(Get(before, "transactions", <<>>), result'.value)
           /\ state'[u][total] = Get(before, total, 0) + result'.value.total_amount_usd]_vars

\* C16: when the POST of the trade fails (the client returns {error: ...}), the trade
\* operation returns an empty mapping or one with status "error", and leaves the user's
\* transactions, total_earnings, total_costs, community_score and nfts as they were
TradeKeys == {"transactions", "total_earnings", "total_costs", "community_score", "nfts"}
C16_FailedTradeSurfaced ==
    [][(TradeStep /\ FailedReply(network')) =>
        LET u == args'.user_id
            before == get_state(state, u)
            after == get_state(state', u)
        IN /\ DOMAIN result'.value = {} \/ result'.value.status = "error"
           /\ \A k \in TradeKeys :
                /\ k \in DOMAIN after <=> k \in DOMAIN before
                /\ k \in DOMAIN before => after[k] = before[k]]_vars

\* C17: after update_user_session(u, d), get_user_session(u) returns the session u had
\* with the keys of d set to d's values, the other keys kept, and last_updated set by
\* the store; the int and the str form of an id give the same session; after
\* delete_user_session(u), get_user_session(u) returns {}, to delete again returns True
\* and changes nothing; neither call changes what get_user_session returns for another
\* user
\* the key each id of the calls is stored under
StoredAs(u) ==
    CASE u = [int |-> 7] -> <<"7">>
      [] u = [str |-> <<"7">>] -> <<"7">>
      [] u = [int |-> 12] -> <<"1", "2">>
      [] u = [str |-> <<"1", "2">>] -> <<"1", "2">>
      [] u = [str |-> <<"0", "7">>] -> <<"0", "7">>
SessionOf(file, u) == get_user_session(file, u).value
OthersKept(u) ==
    \A v \in UserIdArgs :
        StoredAs(v) /= StoredAs(u) => SessionOf(session_file', v) = SessionOf(session_file, v)
BothForms(file) ==
    /\ SessionOf(file, [int |-> 7]) = SessionOf(file, [str |-> <<"7">>])
    /\ SessionOf(file, [int |-> 12]) = SessionOf(file, [str |-> <<"1", "2">>])
C17_SessionContract ==
    [][/\ called' = "update_user_session" =>
            LET u == args'.user_id
                d == args'.data
                before == SessionOf(session_file, u)
                after == SessionOf(session_file', u)
            IN /\ result'.value = TRUE
               /\ DOMAIN after = DOMAIN before \cup DOMAIN d \cup {"last_updated"}
               /\ \A k \in DOMAIN after \ {"last_updated"} :
                    after[k] = IF k \in DOMAIN d THEN d[k] ELSE before[k]
               /\ after.last_updated = [iso |-> clock]
               /\ BothForms(session_file')
               /\ OthersKept(u)
       /\ called' = "delete_user_session" =>
            LET u == args'.user_id
            IN /\ result'.value = TRUE
               /\ DOMAIN SessionOf(session_file', u) = {}
               /\ delete_user_session(session_file', u) = [file |-> session_file', value |-> TRUE]
               /\ StoredAs(u) \notin DOMAIN session_file.sessions =>
                    session_file'.sessions = session_file.sessions
               /\ BothForms(session_file')
               /\ OthersKept(u)]_vars
\* user 7, named by the int, was updated with one key: the step is the new one, the
\* agent type is kept, the stamp is the store's, user 12 is still there
C17_Witness ==
    /\ called = "update_user_session"
    /\ args = [user_id |-> [int |-> 7], data |-> [step |-> "address"]]
    /\ clock = 3
    /\ SessionOf(session_file, [str |-> <<"7">>]) =
            [agent_type |-> "prosumer", step |-> "address", last_updated |-> [iso |-> 3]]
    /\ <<"1", "2">> \in DOMAIN session_file.sessions

\* C18: clear_old_sessions(days) removes the sessions whose last_updated is a timestamp
\* at least days + 1 whole days before now and no other, returns how many it removed,
\* and leaves the sessions it keeps as they were: those stamped later, those without
\* last_updated and those whose last_updated is no timestamp
PastBy(session, whole_days) ==
    /\ "last_updated" \in DOMAIN session
    /\ "iso" \in DOMAIN session.last_updated
    /\ clock - session.last_updated.iso >= whole_days * TicksPerDay
C18_RetentionSweep ==
    [][called' = "clear_old_sessions" =>
        LET before == session_file.sessions
            after == session_file'.sessions
            removed == {k \in DOMAIN before : PastBy(before[k], args'.days + 1)}
        IN /\ DOMAIN after = (DOMAIN before) \ removed
           /\ \A k \in DOMAIN after : after[k] = before[k]
           /\ result'.value = Cardinality(removed)
           /\ \A k \in DOMAIN before :
                (~PastBy(before[k], args'.days) \/ ~PastBy(before[k], 1)) => k \in DOMAIN after]_vars
\* a sweep with days = 0 has removed the session of user 7 and kept that of user 12,
\* whose last_updated is no timestamp
C18_Witness ==
    /\ called = "clear_old_sessions" /\ args.days = 0
    /\ result.value = 1
    /\ DOMAIN session_file.sessions = {<<"1", "2">>}
    /\ session_file.sessions[<<"1", "2">>] =
            [agent_type |-> "prosumer", step |-> "menu", last_updated |-> [text |-> "yesterday"]]

\* C19: when two calls of update_user_session have both loaded the store before either
\* saved, the update that was saved first is not in the store once both have saved,
\* whether the two calls were for two users or for one; when the second call loaded
\* after the first had saved, both updates are in the store
BothSaved == DOMAIN writers = Writers /\ \A w \in Writers : writers[w].pc = "saved"
FirstSaver == CHOOSE w \in Writers : writers[w].saved_as = 1
SecondSaver == CHOOSE w \in Writers : writers[w].saved_as = 2
\* the update of `w` is in the store: the session of its user holds its data
InStore(w) ==
    LET key == StoredAs(writers[w].user_id)
    IN /\ key \in DOMAIN session_file.sessions
       /\ \A k \in DOMAIN writers[w].data :
            /\ k \in DOMAIN session_file.sessions[key]
            /\ session_file.sessions[key][k] = writers[w].data[k]
C19_LostUpdate ==
    BothSaved =>
        /\ InStore(SecondSaver)
        /\ writers[SecondSaver].loaded_after = 0 => ~InStore(FirstSaver)
        /\ writers[SecondSaver].loaded_after = 1 => InStore(FirstSaver)
\* both calls loaded, then both saved, for two different users: the first update is lost
C19_Witness ==
    /\ BothSaved
    /\ writers[SecondSaver].loaded_after = 0
    /\ StoredAs(writers[FirstSaver].user_id) /= StoredAs(writers[SecondSaver].user_id)
    /\ ~InStore(FirstSaver)
    /\ InStore(SecondSaver)

\* the entry of a user in a state map: a sequence holding it, empty when there is none
EntryOf(agent_state, user_id) ==
    IF user_id \in DOMAIN agent_state THEN <<agent_state[user_id]>> ELSE <<>>
C21_OneCallPerOperation ==
    called \in TradeOperations => Len(posts) <= 1

\* execute_auto_trading ran for a user whose automatic trading is switched on
AutoRan == called = "execute_auto_trading" /\ "action" \in DOMAIN result.value
\* C22: whenever the assistant is not available or its decision call raised, the action
\* of execute_auto_trading is the one the fixed rules choose: sell to the grid with excess
\* at peak time when peak_time_selling is on, buy from the grid off peak without excess
\* when off_peak_buying is on, otherwise no action.
C22_RulesWhenAssistantFails ==
    (AutoRan /\ (~args.ai_available \/ args.ai_outcome.raised /= NoError)) =>
        result.value.action =
            ChosenAction("rules", HasExcess(result.value.current_production),
                         result.value.is_peak_time, StoredSettings)

\* the answer holds nothing to extract: the POST failed, or the body has no response or
\* a catalog without providers
NothingToExtract ==
    \/ FailedReply(network')
    \/ response_data \in {[responses |-> <<>>], [responses |-> <<Catalog(<<>>)>>]}
\* C23: a search or order operation that ends in its exception handler returns an empty
\* list or mapping and leaves the whole state map as it was, so the value stored under
\* its key is kept and no entry is created; an operation whose POST failed or whose
\* answer holds no provider returns the same empty value without an exception, and
\* stores it under its key for the user.
C23_HandlerKeepsState ==
    [][(called' \in DOMAIN StoredUnder /\ called' /= called) =>
        /\ caught' /= NoError => (state' = state /\ DOMAIN result'.value = {})
        /\ (caught' = NoError /\ NothingToExtract) =>
            /\ DOMAIN result'.value = {}
            /\ \E u \in UserIds : StoredFor(u, StoredUnder[called'], result'.value)]_vars

\* an operation has ended in its handler for a user whose state holds an earlier value
\* under its key: the value is still there and the empty list is returned
C23_Witness ==
    /\ called \in {"search_solar_products", "search_installers", "search_energy_programs"}
    /\ caught /= NoError
    /\ result.value = <<>>
    /\ \E u \in UserIds :
        /\ u \in DOMAIN state
        /\ StoredUnder[called] \in DOMAIN state[u]
        /\ state[u][StoredUnder[called]] = <<[id |-> "stale"]>>

\* C24: initialize_order, confirm_order and check_order_status return, for every client
\* response, the order extract_order_details returns for it: the message.order of the
\* first entry of `responses` that holds one, or an empty mapping.
C24_ReturnsExtractedOrder ==
    (called \in {"initialize_order", "confirm_order", "check_order_status"}
        /\ caught = NoError /\ ~FailedReply(network)) =>
        result.value = extract_order_details(response_data).value

\* the tokens of a user in a state map
NftsOf(agent_state, user_id) == Get(get_state(agent_state, user_id), "nfts", <<>>)
\* C25: a completed grid sale or p2p share of a user whose stored auto_trading settings
\* have token_rewards true appends exactly one token to the user's `nfts` and returns it
\* as nft_details; with token_rewards false or no settings it leaves `nfts` as it was and
\* returns no nft_details; a grid purchase leaves `nfts` as it was and its result has no
\* nft_details; a trade never shortens `nfts`.
C25_OneTokenPerRewardedTrade ==
    [][(called' \in TradeOperations /\ called' /= called
            /\ result'.value.status = "completed") =>
        LET user_id == args'.user_id
            rewarded == Get(Get(get_state(state, user_id), "auto_trading", EmptyDict),
                            "token_rewards", FALSE)
            nfts_before == NftsOf(state, user_id)
            nfts_after == NftsOf(state', user_id)
        IN /\ Len(nfts_after) >= Len(nfts_before)
           /\ (called' /= "execute_grid_purchase" /\ rewarded) =>
                /\ result'.value.nft_details.status = "created"
                /\ nfts_after = Append(nfts_before, result'.value.nft_details)
           /\ (called' /= "execute_grid_purchase" /\ ~rewarded) =>
                /\ result'.value.nft_details = NoneData
                /\ nfts_after = nfts_before
           /\ called' = "execute_grid_purchase" =>
                /\ "nft_details" \notin DOMAIN result'.value
                /\ nfts_after = nfts_before]_vars
\* a p2p share has minted a community_share token for a user who held one token before:
\* the user now holds two, and the second is the one returned
C25_Witness ==
    /\ called = "execute_p2p_sharing"
    /\ result.value.status = "completed"
    /\ Len(NftsOf(state, args.user_id)) = 2
    /\ NftsOf(state, args.user_id)[2] = result.value.nft_details
    /\ result.value.nft_details.type = "community_share"

\* the provider_id of the first of `opportunities` whose type is among `types`, else
\* `fallback`
FirstMatching(opportunities, types, fallback) ==
    IF \E i \in DOMAIN opportunities : opportunities[i].type \in types
    THEN opportunities[CHOOSE i \in DOMAIN opportunities :
                           /\ opportunities[i].type \in types
                           /\ \A j \in 1..(i - 1) : opportunities[j].type \notin types].provider_id
    ELSE fallback
\* the order of the trade request, the last POST of a trade
TradeOrder == posts[Len(posts)].json.message.order
\* C26: a completed grid sale is sent to the provider of the first opportunity that is a
\* sell opportunity, a grid purchase to that of the first buy opportunity, each to
\* "grid-op-1" when there is none; a p2p share is sent to the provider of the first
\* opportunity of type p2p_sharing, else to "community-1"; sale and share send SELL,
\* purchase sends BUY, in the item's descriptor.code and, in lower case, in its id.
C26_CounterpartyAndDirection ==
    Completed =>
        LET opportunities ==
                Get(get_state(state, args.user_id), "trading_opportunities", <<>>)
            direction == IF called = "execute_grid_purchase" THEN <<"B","U","Y">>
                         ELSE <<"S","E","L","L">>
        IN /\ TradeOrder.items[1].descriptor.code = direction
           /\ TradeOrder.items[1].id = <<"e","n","e","r","g","y","-">> \o Lower(direction)
           /\ called = "execute_grid_sale" =>
                TradeOrder.provider.id = FirstMatching(opportunities, {"sell_excess"}, "grid-op-1")
           /\ called = "execute_grid_purchase" =>
                TradeOrder.provider.id = FirstMatching(opportunities, {"buy_energy"}, "grid-op-1")
           /\ called = "execute_p2p_sharing" =>
                TradeOrder.provider.id = FirstMatching(opportunities, {"p2p_sharing"}, "community-1")

\* the claim as worded: a completed sale and a completed p2p share are priced at or above
\* the stored min_sell_price_kwh, a completed purchase at or below max_buy_price_kwh
C27_AsStated ==
    Completed =>
        /\ called \in {"execute_grid_sale", "execute_p2p_sharing"} =>
               result.value.price_per_kwh >= MinSell
        /\ called = "execute_grid_purchase" => result.value.price_per_kwh <= MaxBuy
\* C27: no completed grid sale is priced below the user's stored min_sell_price_kwh, no
\* completed grid purchase above the stored max_buy_price_kwh, and no completed p2p
\* share below nine tenths of the stored min_sell_price_kwh
C27_PriceWithinLimits ==
    Completed =>
        /\ called = "execute_grid_sale" => result.value.price_per_kwh >= MinSell
        /\ called = "execute_grid_purchase" => result.value.price_per_kwh <= MaxBuy
        /\ called = "execute_p2p_sharing" => 10 * result.value.price_per_kwh >= 9 * MinSell
\* a p2p share by a user who stored a selling price of 0.20, completed at 0.18
C27_Witness ==
    /\ Completed /\ called = "execute_p2p_sharing"
    /\ "min_sell_price_kwh" \in DOMAIN StoredSettings
    /\ MinSell = 200
    /\ result.value.price_per_kwh = 180

\* the user's `transactions` log, and the sum of `field` over its entries of the
\* transaction types `types`
LogOf(agent_state, user_id) == Get(get_state(agent_state, user_id), "transactions", <<>>)
RECURSIVE SumOver(_, _, _)
SumOver(log, types, field) ==
    IF log = <<>> THEN 0
    ELSE (IF Head(log).transaction_type \in types THEN Head(log)[field] ELSE 0)
         + SumOver(Tail(log), types, field)
IsPrefix(s, t) == Len(s) <= Len(t) /\ SubSeq(t, 1, Len(s)) = s
\* what the totals of `user_id` are against the log (a total not stored yet counts as 0;
\* community_score, in thousandths, is a tenth of the amounts, in hundredths of a kWh)
TotalsMatchLog(agent_state, user_id) ==
    LET user_state == get_state(agent_state, user_id)
        log == LogOf(agent_state, user_id)
    IN /\ Get(user_state, "total_earnings", 0)
              = SumOver(log, {"grid_sale", "p2p_sharing"}, "total_amount_usd")
       /\ Get(user_state, "total_costs", 0) = SumOver(log, {"grid_purchase"}, "total_amount_usd")
       /\ Get(user_state, "community_score", 0) = SumOver(log, {"p2p_sharing"}, "amount_kwh")
\* C28: from an empty agent state and with agent operations only, after every operation
\* and for every user, total_earnings is the sum of total_amount_usd over the grid_sale
\* and p2p_sharing entries of `transactions`, total_costs the sum over its grid_purchase
\* entries, community_score a tenth of the summed amount_kwh of its p2p_sharing entries,
\* and the log of before is a prefix of the log of after
C28_TotalsMatchLog ==
    [][\A user_id \in UserIds :
          /\ TotalsMatchLog(state', user_id)
          /\ IsPrefix(LogOf(state, user_id), LogOf(state', user_id))]_vars
\* a user who sold, bought and shared: three entries and three totals
C28_Witness ==
    /\ solo.issued = <<"execute_grid_sale", "execute_grid_purchase", "execute_p2p_sharing">>
    /\ Len(LogOf(state, "user-1")) = 3
    /\ state["user-1"].total_earnings > state["user-1"].transactions[1].total_amount_usd
    /\ state["user-1"].total_costs > 0
    /\ state["user-1"].community_score = 1250

\* C29: an update of one user's session leaves every other session the file held as it
\* was, also when the file could not be read or decoded at the time of the update
C29_OthersKeptOnReadFailure ==
    [][called' = "update_user_session" =>
          \A v \in UserIdArgs :
              (PyStr(v) /= PyStr(args'.user_id) /\ PyStr(v) \in DOMAIN session_file.sessions)
                  => /\ PyStr(v) \in DOMAIN session_file'.sessions
                     /\ session_file'.sessions[PyStr(v)] = session_file.sessions[PyStr(v)]]_vars

\* the trades execute_auto_trading can make, with the transaction type of each
AutoTrades ==
    [sell_to_grid |-> "grid_sale", buy_from_grid |-> "grid_purchase",
     share_with_neighbors |-> "p2p_sharing"]
HistoryOf(agent_state, user_id) == Get(get_state(agent_state, user_id), "trading_history", <<>>)
\* the POSTs of the call that execute a trade
TradesPosted(calls) == {i \in DOMAIN calls : calls[i].json.context.action = "init"}
\* C30: execute_auto_trading for a user whose stored settings do not have
\* auto_participation true returns status "disabled", posts nothing and changes no state;
\* otherwise it executes at most one trade and appends exactly one record, the one it
\* returns, to the user's trading_history: the record's action names the trade executed
\* and its result is that trade's result, a sale or a share is made only with excess
\* production (more than 2.0 kWh an hour) and a purchase only outside the hours 12 to 20
C30_AutoTradingStep ==
    [][called' = "execute_auto_trading" =>
          LET u == args'.user_id
              settings == Get(get_state(state, u), "auto_trading", EmptyDict)
              record == result'.value
          IN IF "auto_participation" \notin DOMAIN settings \/ settings.auto_participation /= TRUE
             THEN /\ record.status = "disabled"
                  /\ posts' = NoPosts
                  /\ state' = state
             ELSE /\ HistoryOf(state', u) = Append(HistoryOf(state, u), record)
                  /\ Cardinality(TradesPosted(posts')) <= 1
                  /\ IF record.action \in DOMAIN AutoTrades
                     THEN /\ Cardinality(TradesPosted(posts')) = 1
                          /\ record.result.transaction_type = AutoTrades[record.action]
                          /\ LogOf(state', u) = Append(LogOf(state, u), record.result)
                     ELSE /\ record.action \in {"store_in_battery", "no_action", "error"}
                          /\ posts' = NoPosts
                          /\ LogOf(state', u) = LogOf(state, u)
                  /\ record.action \in {"sell_to_grid", "share_with_neighbors"} =>
                         record.current_production > 480
                  /\ record.action = "buy_from_grid" => args'.current_hour \notin 12..20]_vars
\* at 14:00 a user with automatic trading on and excess production sold to the grid:
\* one trade posted, one record more in the history
C30_Witness ==
    /\ called = "execute_auto_trading"
    /\ args.current_hour = 14
    /\ "action" \in DOMAIN result.value
    /\ result.value.action = "sell_to_grid"
    /\ result.value.result.status = "completed"
    /\ Cardinality(TradesPosted(posts)) = 1
    /\ Len(HistoryOf(state, args.user_id)) = 2

AgentOperations ==
    {"search_subsidies", "estimate_roi", "get_energy_production", "enable_auto_trading"}

\* C4: every public operation of the agents returns a value and never raises to its
\* caller, for every user state (one set by load_state included) and every client
\* response; this covers estimate_roi when the state has electricity_consumption = 0 or
\* electricity_rate = 0 and get_energy_production with a date string that does not parse.
C4_NeverRaises ==
    called \in AgentOperations => result.raised = NoError

====
